---- MODULE Spec2Model ----
(***************************************************************************)
(* Model of the blob-e2e-poc synchronizer (src/synchronizer/src/main.rs):  *)
(* the slot walker of main(), Node::process_beacon_block_header and the    *)
(* Init/Update payload handlers, over the four ledger tables.              *)
(*                                                                         *)
(* Abstractions.  A blob is represented by its decoded content and         *)
(* kzg_to_versioned_hash by the blob itself (a collision-free hash is      *)
(* represented by its preimage).  A compressed proof is represented by the *)
(* public inputs it verifies against (soundness of the proof system), or   *)
(* by the empty tuple when it verifies against nothing.  State commitments *)
(* are small integers, EMPTY_VALUE being 0.  The columns block, blob_index *)
(* and timestamp of the blob table are copied from the block and never     *)
(* read back; they are left out.  A block's contents are drawn when the    *)
(* walker reads them.                                                      *)
(***************************************************************************)
EXTENDS Integers, Sequences, FiniteSets, TLC

\* ------------------------------------------------------------- bounds
\* The beacon head never passes MaxSlot.
MaxSlot == 3
\* Blobs carried by the blob transactions of one block.
MaxBlockBlobs == 2

\* ------------------------------------------------------ configuration
\* Config.ad_genesis_slot (AD_GENESIS_SLOT)
Genesis == 1
\* Config.to_addr (TO_ADDR)
ToAddr == "ad_addr"
\* tx.to(): Some(address), or None for a contract creation
NoAddr == "none"
TxTo == {ToAddr, "other_addr", NoAddr}
\* before the transaction loop has met a transaction
NoTx == "no_tx"

\* ---------------------------------------------------------- data model
\* pod2::middleware::EMPTY_VALUE
EMPTY_VALUE == 0
\* State commitments: EMPTY_VALUE, the empty dictionary, a dictionary with a member.
States == {0, 1, 2}
ListIds == {1}
PredicateRefs == {"update", "other"}
VdsRoots == {"vds", "other_vds"}

\* Transitions <<new, old>> for which a proof can exist (app build_predicates:
\* init takes EMPTY_VALUE to the empty dictionary, add and del change a group).
Transitions == {<<1, 0>>, <<2, 1>>, <<1, 2>>}

\* public_inputs = [sts_hash, vds_root] with
\* sts_hash = calculate_statements_hash([Custom(pred, [new_state, old_state])])
PublicInputs(pred, new_state, old_state, vds_root) ==
    <<pred, new_state, old_state, vds_root>>

\* A proof verifies against exactly the public inputs it was made for; <<>> is a
\* proof that fails decompression or verification whatever the inputs.
Proofs ==
    {[attests |-> PublicInputs(p, t[1], t[2], v)] :
        p \in PredicateRefs, t \in Transitions, v \in VdsRoots}
    \cup {[attests |-> <<>>]}

\* PayloadInit, PayloadUpdate; a blob that bytes_from_simple_blob or
\* Payload::from_bytes rejects.
\* The (predicate reference, vds root) pairs lists are created with
Configs == {<<"update", "vds">>, <<"other", "other_vds">>}
InitBlobs ==
    {[type |-> "init", id |-> i, custom_predicate_ref |-> c[1], vds_root |-> c[2]] :
        i \in ListIds, c \in Configs}
UpdateBlobs ==
    {[type |-> "update", id |-> i, shrunk_main_pod_proof |-> pr, new_state |-> s] :
        i \in ListIds, pr \in Proofs, s \in States \ {EMPTY_VALUE}}
GarbageBlob == [type |-> "garbage"]
Blobs == InitBlobs \cup UpdateBlobs \cup {GarbageBlob}

\* kzg_to_versioned_hash(blob.kzg_commitment)
VersionedHash(blob) == blob

\* SQL tables of Node::init_db
EmptyDb == [ad |-> {}, ad_update |-> {}, blob |-> {}, visited_slot |-> <<>>]

VARIABLES
    beacon,         \* the beacon chain: beacon[s] is TRUE when slot s has a block header
    db,             \* the committed database
    tx,             \* the database as the walker's connection sees it (db with the open transaction's writes)
    pc,             \* where the walker is
    slot,           \* main's `slot`
    initial_slot,   \* main's `initial_slot`
    head0,          \* main's `head`, fetched once at start
    tx_to,          \* `to` of the transaction the transaction loop is at
    last_log,       \* what the blob loop logged last for the current block
    nblobs          \* blobs of the current block met so far

\* The coordinator (src/ad-server)
VARIABLES
    test_mode,      \* Config.priv_key is empty
    cdb,            \* the coordinator's membership_list table
    queue,          \* the requests buffered in the queue channel
    blocked,        \* requests whose handler waits for room in the channel
    queue_state,    \* Context.queue_state: queue_state[req_id] is the request's status
    cur,            \* the request the consumer is handling
    cpc,            \* where the consumer is
    pods,           \* the pods stored under pods_path
    sent,           \* the blob transactions sent, in order
    rev_db          \* the coordinator's rev_membership_list table

\* One call of the blob sender (src/ad-server/src/eth.rs)
VARIABLES
    epc,            \* where the call of send_payload is
    eret,           \* what send_payload returned
    fee_percentage, \* send_tx's fee_percentage
    fees,           \* the EIP-1559 estimates fetched by send_payload
    blob_base_fee,  \* the blob base fee fetched by send_payload
    nonce,          \* the sender's transaction count fetched by send_payload
    sidecar,        \* the blob sidecar built from the payload bytes
    receipt,        \* the receipt send_tx returned
    calls           \* the provider calls and sleeps made, in order

\* The sender's account on the chain, for the nonce of one call
VARIABLES
    included,       \* the attempt whose transaction is in a block, 0 when none is
    pending         \* the attempts whose transaction a node accepted

\* What the nodes have answered about the slots read so far
VARIABLES
    chain           \* chain[s]: whether slot s has blobs, its blobs in order, and whether its end was read

\* The state of one list and its reverse state, as the update helpers chain them
VARIABLES
    app_state,      \* group -> set of users; without keys before Init
    app_rev_state,  \* user -> set of groups
    app_pc          \* "ready", or "panicked" after a helper panicked

\* One use of a byte codec (src/common/src/payload.rs, src/synchronizer/src/lib.rs)
VARIABLES
    given,          \* the value that is encoded
    wire,           \* the bytes
    tampered,       \* what was changed in the bytes after encoding
    decoded         \* what decoding the bytes returned

\* The synchronizer's variables, the coordinator's variables
svars == <<beacon, db, tx, pc, slot, initial_slot, head0, tx_to, last_log, nblobs>>
cvars == <<test_mode, cdb, queue, blocked, queue_state, cur, cpc, pods, sent, rev_db>>

\* The blob sender's variables, the codecs' variables
tvars == <<epc, eret, fee_percentage, fees, blob_base_fee, nonce, sidecar, receipt, calls>>
kvars == <<given, wire, tampered, decoded>>
nvars == <<included, pending>>
avars == <<app_state, app_rev_state, app_pc>>
hvars == <<chain>>
ovars == <<tvars, kvars, nvars, avars, hvars>>

vars == <<beacon, db, tx, pc, slot, initial_slot, head0, tx_to, last_log, nblobs,
          test_mode, cdb, queue, blocked, queue_state, cur, cpc, pods, sent, rev_db,
          epc, eret, fee_percentage, fees, blob_base_fee, nonce, sidecar, receipt, calls,
          given, wire, tampered, decoded, included, pending,
          app_state, app_rev_state, app_pc, chain>>

\* No operation was applied to the list
AppIdle ==
    /\ app_state = <<>>
    /\ app_rev_state = <<>>
    /\ app_pc = "ready"

\* No call of the blob sender is made
NoResult == [ok |-> FALSE, err |-> "none"]
NoReceipt == [from |-> "none", to |-> "none", blob_gas_used |-> 0]
TransportIdle ==
    /\ epc = "idle"
    /\ eret = NoResult
    /\ fee_percentage = 0
    /\ fees = [max_fee_per_gas |-> 0, max_priority_fee_per_gas |-> 0]
    /\ blob_base_fee = 0
    /\ nonce = 0
    /\ sidecar = <<>>
    /\ receipt = NoReceipt
    /\ calls = <<>>
    /\ included = 0
    /\ pending = {}

\* No codec is used
CodecIdle ==
    /\ given = <<>>
    /\ wire = <<>>
    /\ tampered = "none"
    /\ decoded = NoResult

\* ------------------------------------------------------------ database
\* Result<()> of a handler, with the database as its writes left it
Ok(d) == [ok |-> TRUE, db |-> d, err |-> ""]
Err(d, e) == [ok |-> FALSE, db |-> d, err |-> e]

\* INSERT INTO blob; versioned_hash is the PRIMARY KEY
add_blob(d, row) ==
    IF \E b \in d.blob : b.versioned_hash = row.versioned_hash
    THEN Err(d, "UNIQUE constraint failed: blob.versioned_hash")
    ELSE Ok([d EXCEPT !.blob = @ \cup {row}])

\* INSERT INTO ad; id is the PRIMARY KEY
add_ad(d, row) ==
    IF \E a \in d.ad : a.id = row.id
    THEN Err(d, "UNIQUE constraint failed: ad.id")
    ELSE Ok([d EXCEPT !.ad = @ \cup {row}])

\* INSERT INTO ad_update; PRIMARY KEY (id, num)
add_ad_update(d, row) ==
    IF \E u \in d.ad_update : u.id = row.id /\ u.num = row.num
    THEN Err(d, "UNIQUE constraint failed: ad_update.id, ad_update.num")
    ELSE Ok([d EXCEPT !.ad_update = @ \cup {row}])

\* INSERT INTO visited_slot; the table has no key
add_visited_slot(d, s) == [d EXCEPT !.visited_slot = Append(@, s)]

\* SELECT * FROM ad WHERE id = ?: the rows found (none: RowNotFound)
get_ad(d, id) == {a \in d.ad : a.id = id}

\* SELECT * FROM ad_update WHERE id = ? ORDER BY num DESC LIMIT 1
get_ad_update_last(d, id) ==
    {u \in d.ad_update : u.id = id /\ \A w \in d.ad_update : w.id = id => w.num <= u.num}

Max(a, b) == IF a >= b THEN a ELSE b

\* SELECT slot FROM visited_slot ORDER BY slot DESC LIMIT 1 (0 rows: Err)
HasVisitedSlot(d) == Len(d.visited_slot) > 0
get_visited_slot_last(d) ==
    CHOOSE s \in {d.visited_slot[i] : i \in 1..Len(d.visited_slot)} :
        \A i \in 1..Len(d.visited_slot) : d.visited_slot[i] <= s

\* Faulty variant: the writes of a dropped transaction stay in the database.
DurableNoTx(committed, working) == working

\* What the database holds of an open transaction that is dropped without commit.
Durable(committed, working) == committed

\* ---------------------------------------------------- payload handlers
\* Faulty variant of process_payload_init: the ad row is written without its ad_update row.
process_payload_init_ad_only(d, blob, payload) ==
    IF get_ad(d, payload.id) # {}
    THEN Err(d, "got init payload but AD already exists")
    ELSE add_ad(d, [id |-> payload.id,
                    custom_predicate_ref |-> payload.custom_predicate_ref,
                    vds_root |-> payload.vds_root,
                    blob_versioned_hash |-> VersionedHash(blob)])

\* Faulty variant of process_payload_init: no look-up of the list, the ad row is overwritten.
process_payload_init_replace(d, blob, payload) ==
    LET blob_versioned_hash == VersionedHash(blob)
        replaced == [d EXCEPT !.ad = {a \in @ : a.id # payload.id}
                                     \cup {[id |-> payload.id,
                                             custom_predicate_ref |-> payload.custom_predicate_ref,
                                             vds_root |-> payload.vds_root,
                                             blob_versioned_hash |-> blob_versioned_hash]}]
    IN  add_ad_update(replaced, [id |-> payload.id,
                                 num |-> 0,
                                 state |-> EMPTY_VALUE,
                                 blob_versioned_hash |-> blob_versioned_hash])

\* Node::process_payload_init
process_payload_init(d, blob, payload) ==
    IF get_ad(d, payload.id) # {}
    THEN Err(d, "got init payload but AD already exists")
    ELSE
        LET blob_versioned_hash == VersionedHash(blob)
            r1 == add_ad(d, [id |-> payload.id,
                             custom_predicate_ref |-> payload.custom_predicate_ref,
                             vds_root |-> payload.vds_root,
                             blob_versioned_hash |-> blob_versioned_hash])
        IN  IF ~r1.ok THEN r1
            ELSE add_ad_update(r1.db, [id |-> payload.id,
                                       num |-> 0,
                                       state |-> EMPTY_VALUE,
                                       blob_versioned_hash |-> blob_versioned_hash])

\* Faulty variant of verify: every proof is accepted.
verify_skipped(proof, public_inputs) == TRUE

\* CompressedProofWithPublicInputs::decompress followed by VerifierCircuitData::verify
verify(proof, public_inputs) == proof.attests = public_inputs

\* Faulty variant of next_num: a number is skipped.
next_num_skip(ad_update_last) == ad_update_last.num + 2

\* num: ad_update_last.num + 1
next_num(ad_update_last) == ad_update_last.num + 1

\* Faulty variant of process_payload_update: the row is written before the proof is verified.
process_payload_update_write_first(d, blob, payload) ==
    IF get_ad(d, payload.id) = {} \/ get_ad_update_last(d, payload.id) = {}
    THEN Err(d, "RowNotFound")
    ELSE
        LET ad == CHOOSE a \in get_ad(d, payload.id) : TRUE
            ad_update_last == CHOOSE u \in get_ad_update_last(d, payload.id) : TRUE
            public_inputs == PublicInputs(ad.custom_predicate_ref, payload.new_state,
                                          ad_update_last.state, ad.vds_root)
            w == add_ad_update(d, [id |-> payload.id,
                                   num |-> next_num(ad_update_last),
                                   state |-> payload.new_state,
                                   blob_versioned_hash |-> VersionedHash(blob)])
        IN  IF ~verify(payload.shrunk_main_pod_proof, public_inputs)
            THEN Err(w.db, "proof does not verify")
            ELSE w

\* Node::process_payload_update
process_payload_update(d, blob, payload) ==
    IF get_ad(d, payload.id) = {} \/ get_ad_update_last(d, payload.id) = {}
    THEN Err(d, "RowNotFound")
    ELSE
        LET ad == CHOOSE a \in get_ad(d, payload.id) : TRUE
            ad_update_last == CHOOSE u \in get_ad_update_last(d, payload.id) : TRUE
            public_inputs == PublicInputs(ad.custom_predicate_ref, payload.new_state,
                                          ad_update_last.state, ad.vds_root)
        IN  IF ~verify(payload.shrunk_main_pod_proof, public_inputs)
            THEN Err(d, "proof does not verify")
            ELSE add_ad_update(d, [id |-> payload.id,
                                   num |-> next_num(ad_update_last),
                                   state |-> payload.new_state,
                                   blob_versioned_hash |-> VersionedHash(blob)])

\* Node::process_ad_blob: bytes_from_simple_blob, Payload::from_bytes, then the handler
process_ad_blob(d, blob) ==
    CASE blob.type = "init" -> process_payload_init(d, blob, blob)
      [] blob.type = "update" -> process_payload_update(d, blob, blob)
      [] OTHER -> Err(d, "Invalid byte encoding in blob")

\* Faulty variant of is_ad_tx: the destination is not compared.
is_ad_tx_any(to) == TRUE

\* `self.cfg.to_addr == to` of the transaction loop
is_ad_tx(to) == to = ToAddr

\* ------------------------------------------------------------ the walker
HeadSlot == Len(beacon)

\* A slot no walk has read
Unread == [kind |-> "unread", items |-> <<>>, closed |-> FALSE]

SyncInit ==
    /\ beacon = <<TRUE>>
    /\ db = EmptyDb
    /\ tx = EmptyDb
    /\ pc = "boot"
    /\ slot = 0
    /\ initial_slot = 0
    /\ head0 = 0
    /\ tx_to = NoTx
    /\ last_log = ""
    /\ nblobs = 0
    /\ chain = [s \in 1..MaxSlot |-> Unread]

\* The beacon chain grows: the new head slot has a block, a slot skipped on the way has none.
AdvanceHead ==
    /\ \E skipped \in {0, 1} :
        /\ HeadSlot + skipped + 1 <= MaxSlot
        /\ beacon' = beacon \o [i \in 1..skipped |-> FALSE] \o <<TRUE>>
    /\ UNCHANGED <<db, tx, pc, slot, initial_slot, head0, tx_to, last_log, nblobs>>

\* Faulty variant of InitialSlot: the last visited slot is walked again.
InitialSlotNoIncrement(d) ==
    Max(IF HasVisitedSlot(d) THEN get_visited_slot_last(d) ELSE Genesis, Genesis)

\* Faulty variant of InitialSlot: the cursor is not read from the database.
InitialSlotGenesis(d) == Genesis

\* get_visited_slot_last().map(|x| x + 1).unwrap_or(ad_genesis_slot).max(ad_genesis_slot)
InitialSlot(d) ==
    Max(IF HasVisitedSlot(d) THEN get_visited_slot_last(d) + 1 ELSE Genesis, Genesis)

\* main() up to the loop: the head is fetched once, the cursor is read from the database
Start ==
    /\ pc \in {"boot", "failed"}
    /\ head0' = HeadSlot
    /\ initial_slot' = InitialSlot(db)
    /\ slot' = InitialSlot(db)
    /\ pc' = "check"
    /\ tx_to' = NoTx
    /\ last_log' = ""
    /\ nblobs' = 0
    /\ UNCHANGED <<beacon, db, tx>>

\* The loop's first statement: the header of `slot` is fetched once the head has reached it
\* (slot <= head at start, or the poll sees head >= slot).
HeaderAvailableUnpolled == TRUE
HeaderAvailable == slot <= head0 \/ HeadSlot >= slot
some_beacon_block_header ==
    IF slot <= head0 THEN beacon[slot]
    ELSE IF HeadSlot > slot THEN beacon[slot]
    ELSE TRUE  \* head.slot == slot: Some(head)

\* A slot without a header: recorded as visited outside any transaction
SlotMissed ==
    /\ pc = "check"
    /\ HeaderAvailable
    /\ ~some_beacon_block_header
    /\ db' = add_visited_slot(db, slot)
    /\ tx' = db'
    /\ slot' = slot + 1
    /\ UNCHANGED <<beacon, pc, initial_slot, head0, tx_to, last_log, nblobs>>

\* node.db.begin()
SlotBegin ==
    /\ pc = "check"
    /\ HeaderAvailable
    /\ some_beacon_block_header
    /\ tx' = db
    /\ pc' = "block"
    /\ UNCHANGED <<beacon, db, slot, initial_slot, head0, tx_to, last_log, nblobs>>

\* process_beacon_block_header up to the transaction loop: no block, no execution
\* payload or no KZG commitments return Ok(None)
FetchBlock ==
    /\ pc = "block"
    /\ \E kind \in {"no_block", "no_execution_payload", "no_blobs", "blobs"} :
        pc' = IF kind = "blobs" THEN "txs" ELSE "visit"
    /\ nblobs' = 0
    /\ tx_to' = NoTx
    /\ last_log' = ""
    /\ UNCHANGED <<beacon, db, tx, slot, initial_slot, head0>>

\* The head of the transaction loop: a CREATE transaction and a transaction to
\* another address are passed over with their blobs; a transaction to the AD
\* address enters the blob loop
NextTx(to) ==
    /\ pc = "txs"
    /\ nblobs < MaxBlockBlobs
    /\ tx_to' = to
    /\ last_log' = ""
    /\ IF to # NoAddr /\ is_ad_tx(to)
       THEN pc' = "first_blob" /\ nblobs' = nblobs
       ELSE pc' = "txs" /\ nblobs' = nblobs + 1
    /\ UNCHANGED <<beacon, db, tx, slot, initial_slot, head0>>

\* The body of the blob loop for blob = &blobs[*blob_index]: process_ad_blob, then
\* add_blob when it returned Ok.  An error of process_ad_blob is logged and the loop
\* goes on; an error of add_blob leaves process_beacon_block_header and main through `?`.
ProcessBlob(blob) ==
    /\ pc \in {"first_blob", "blobs"}
    /\ nblobs < MaxBlockBlobs
    /\ nblobs' = nblobs + 1
    /\ LET r == process_ad_blob(tx, blob)
           a == add_blob(r.db, [versioned_hash |-> VersionedHash(blob), slot |-> slot])
       IN  IF ~r.ok
           THEN /\ last_log' = r.err  \* "Invalid ad_blob: {e}"
                /\ tx' = r.db
                /\ pc' = "blobs"
                /\ db' = db
           ELSE IF a.ok
           THEN /\ last_log' = "Valid ad_blob"
                /\ tx' = a.db
                /\ pc' = "blobs"
                /\ db' = db
           ELSE /\ last_log' = a.err
                /\ db' = Durable(db, a.db)
                /\ tx' = db'
                /\ pc' = "failed"
    /\ UNCHANGED <<beacon, slot, initial_slot, head0, tx_to>>

\* The blob loop ends (a blob transaction carries at least one blob)
EndTx ==
    /\ pc = "blobs"
    /\ pc' = "txs"
    /\ UNCHANGED <<beacon, db, tx, slot, initial_slot, head0, tx_to, last_log, nblobs>>

\* The transaction loop ends (a block with KZG commitments has a blob transaction)
EndBlock ==
    /\ pc = "txs"
    /\ nblobs > 0
    /\ pc' = "visit"
    /\ UNCHANGED <<beacon, db, tx, slot, initial_slot, head0, tx_to, last_log, nblobs>>

\* Database(&mut *tx).add_visited_slot(slot)
VisitSlot ==
    /\ pc = "visit"
    /\ tx' = add_visited_slot(tx, slot)
    /\ pc' = "commit"
    /\ UNCHANGED <<beacon, db, slot, initial_slot, head0, tx_to, last_log, nblobs>>

\* tx.commit(); slot += 1
Commit ==
    /\ pc = "commit"
    /\ db' = tx
    /\ slot' = slot + 1
    /\ pc' = "check"
    /\ tx_to' = NoTx
    /\ last_log' = ""
    /\ nblobs' = 0
    /\ UNCHANGED <<beacon, tx, initial_slot, head0>>

\* The process dies; an open transaction is dropped
Crash ==
    /\ pc \notin {"boot", "failed"}
    /\ db' = Durable(db, tx)
    /\ tx' = db'
    /\ pc' = "boot"
    /\ slot' = 0
    /\ initial_slot' = 0
    /\ head0' = 0
    /\ tx_to' = NoTx
    /\ last_log' = ""
    /\ nblobs' = 0
    /\ UNCHANGED beacon

SyncNext ==
    \/ AdvanceHead
    \/ Start
    \/ SlotMissed
    \/ SlotBegin
    \/ FetchBlock
    \/ \E to \in TxTo : NextTx(to)
    \/ \E blob \in Blobs : ProcessBlob(blob)
    \/ EndTx
    \/ EndBlock
    \/ VisitSlot
    \/ Commit
    \/ Crash

\* The rev_membership_list table after the migration: no statement of the
\* program inserts a row
rev_membership_list == {}

\* No request has reached the coordinator
NoReq == [kind |-> "none"]
CoordIdle ==
    /\ test_mode = TRUE
    /\ cdb = {}
    /\ queue = <<>>
    /\ blocked = {}
    /\ queue_state = <<>>
    /\ cur = NoReq
    /\ cpc = "recv"
    /\ pods = {}
    /\ sent = <<>>
    /\ rev_db = rev_membership_list

\* The synchronizer runs in its own process: its steps leave the coordinator alone
SyncOnlyInit == SyncInit /\ CoordIdle /\ TransportIdle /\ AppIdle /\ CodecIdle
SyncOnlyNext ==
    \/ AdvanceHead /\ UNCHANGED <<cvars, ovars>>
    \/ Start /\ UNCHANGED <<cvars, ovars>>
    \/ SlotMissed /\ UNCHANGED <<cvars, ovars>>
    \/ SlotBegin /\ UNCHANGED <<cvars, ovars>>
    \/ FetchBlock /\ UNCHANGED <<cvars, ovars>>
    \/ \E to \in TxTo : NextTx(to) /\ UNCHANGED <<cvars, ovars>>
    \/ \E blob \in Blobs : ProcessBlob(blob) /\ UNCHANGED <<cvars, ovars>>
    \/ EndTx /\ UNCHANGED <<cvars, ovars>>
    \/ EndBlock /\ UNCHANGED <<cvars, ovars>>
    \/ VisitSlot /\ UNCHANGED <<cvars, ovars>>
    \/ Commit /\ UNCHANGED <<cvars, ovars>>
    \/ Crash /\ UNCHANGED <<cvars, ovars>>

\* The synchronizer against an arbitrary chain
Spec == SyncOnlyInit /\ [][SyncOnlyNext]_vars

\* ================================================================ properties
\* The two databases a property speaks of: the committed one and the one the
\* open transaction sees.
Ledgers == {db, tx}

\* The rows of list id, and the row of list id numbered n
RowsOf(d, id) == {u \in d.ad_update : u.id = id}
RowAt(d, id, n) == {u \in d.ad_update : u.id = id /\ u.num = n}

\* The slots recorded in visited_slot
VisitedSlots(d) == {d.visited_slot[i] : i \in 1..Len(d.visited_slot)}

\* C1: every ad_update row (id, num, s) with num > 0 comes from an Update blob
\* whose proof verifies against the public inputs made of ad(id)'s predicate
\* reference, the new state s, the state of row (id, num-1) and ad(id)'s
\* vds_root; no row with num > 0 exists without such a proof.
C1_UpdateRowsVerified ==
    \A d \in Ledgers : \A u \in d.ad_update :
        u.num > 0 =>
            /\ u.blob_versioned_hash.type = "update"
            /\ u.blob_versioned_hash.id = u.id
            /\ u.blob_versioned_hash.new_state = u.state
            /\ \E a \in d.ad : \E prev \in d.ad_update :
                /\ a.id = u.id
                /\ prev.id = u.id
                /\ prev.num = u.num - 1
                /\ u.blob_versioned_hash.shrunk_main_pod_proof.attests =
                       <<a.custom_predicate_ref, u.state, prev.state, a.vds_root>>

\* A list with two verified updates is committed.
C1_TwoUpdatesCommitted ==
    \E u \in db.ad_update : u.num = 2 /\ u.state = 2

\* C2: in every committed state, for each list id the nums of its ad_update
\* rows are exactly 0..k for some k >= 0 and each (id, num) appears once,
\* whatever blobs were seen and whatever crashes happened.
C2_NumsContiguous ==
    \A id \in ListIds :
        LET rows == RowsOf(db, id) IN
        /\ \A u, w \in rows : u.num = w.num => u = w
        /\ {u.num : u \in rows} = 0..(Cardinality(rows) - 1)

\* After a restart the list holds the rows 0, 1 and 2.
C2_ThreeRowsAfterRestart ==
    /\ pc = "check"
    /\ initial_slot > Genesis
    /\ \E id \in ListIds : {u.num : u \in RowsOf(db, id)} = 0..2

\* C3: in every committed state ad(id) exists exactly when ad_update(id, 0)
\* exists, that row's state is the empty value, and both rows come from the
\* same Init blob: neither is ever there without the other.
C3_AdIffRowZero ==
    \A d \in Ledgers : \A id \in ListIds :
        /\ (get_ad(d, id) # {}) <=> (RowAt(d, id, 0) # {})
        /\ \A u \in RowAt(d, id, 0) :
            /\ u.state = EMPTY_VALUE
            /\ u.blob_versioned_hash.type = "init"
            /\ \A a \in get_ad(d, id) : a.blob_versioned_hash = u.blob_versioned_hash

\* A list is committed with its row 0.
C3_ListCommitted ==
    \E a \in db.ad : RowAt(db, a.id, 0) # {}

\* C4: in every committed state, also after a crash anywhere in the processing
\* of a slot, no row of a slot is committed without visited_slot(s), and
\* visited_slot(s) is committed only with every row of s: the rows not yet
\* committed belong to the slot being walked, which is not recorded as visited.
C4_SlotAtomic ==
    /\ \A b \in db.blob : b.slot \in VisitedSlots(db)
    /\ \A r \in db.ad \cup db.ad_update :
        \E b \in db.blob : b.versioned_hash = r.blob_versioned_hash
    /\ \A b \in tx.blob \ db.blob : b.slot = slot /\ slot \notin VisitedSlots(db)
    /\ \A r \in (tx.ad \ db.ad) \cup (tx.ad_update \ db.ad_update) :
        \E b \in tx.blob \ db.blob : b.versioned_hash = r.blob_versioned_hash

\* The walker died in a slot after an earlier slot's rows were committed.
C4_CrashedAfterCommittedRows ==
    /\ pc = "boot"
    /\ db.blob # {}
    /\ Len(db.visited_slot) < HeadSlot

\* C5: with a fixed genesis slot, over any runs and restarts, visited_slot
\* read in insertion order starts at the genesis slot and goes up by exactly
\* one: no slot is recorded twice, none is skipped.
C5_VisitedSlotsConsecutive ==
    \A d \in Ledgers : \A i \in 1..Len(d.visited_slot) :
        d.visited_slot[i] = Genesis + i - 1

\* A restarted walker has recorded further slots.
C5_VisitedAcrossRestart ==
    /\ initial_slot > Genesis
    /\ Len(db.visited_slot) > initial_slot - Genesis
    /\ Len(db.visited_slot) = MaxSlot

\* C6: at every start, first or after a crash, the first slot walked is
\* max(genesis, last visited slot + 1) when visited_slot has rows and the
\* genesis slot when it has none; from then on the walker goes up by exactly
\* one slot per iteration, the slot left behind being the one recorded.
C6_StartsAfterLastVisited ==
    [][/\ (pc \in {"boot", "failed"} /\ pc' = "check") =>
            slot' = IF db.visited_slot = <<>>
                    THEN Genesis
                    ELSE Max(Genesis, db.visited_slot[Len(db.visited_slot)] + 1)
       /\ (pc \notin {"boot", "failed"} /\ pc' # "boot" /\ slot' # slot) =>
            /\ slot' = slot + 1
            /\ db'.visited_slot = Append(db.visited_slot, slot)
      ]_vars

\* A restarted walker is at its first slot, past the genesis slot.
C6_RestartedPastGenesis ==
    /\ pc = "check"
    /\ initial_slot > Genesis
    /\ slot = initial_slot
    /\ HasVisitedSlot(db)

\* C7: no content of the blobs sent to the AD address makes the walker give up
\* a slot: whatever they hold (undecodable, failing verification, a second
\* Init, a blob consumed before) the walker goes on to record the slot.
C7_WalkerSurvivesEveryBlob ==
    pc # "failed"

\* C8: an Init payload for a list id that has a row in ad is rejected: ad,
\* ad_update and blob stay as they are, so the list keeps its predicate
\* reference and vds_root, and the walker goes on with the next blob.
C8_DuplicateInitRejected ==
    [][\A b \in InitBlobs :
        ((\E a \in tx.ad : a.id = b.id) /\ ProcessBlob(b)) =>
            /\ tx' = tx
            /\ db' = db
            /\ pc' = "blobs"
            /\ last_log' = "got init payload but AD already exists"
      ]_vars

\* A second Init for a committed list was rejected.
C8_SecondInitSeen ==
    /\ last_log = "got init payload but AD already exists"
    /\ pc = "blobs"
    /\ db.ad # {}
    /\ tx = db

\* What is logged for a blob whose processing fails
InvalidLogs == {"Invalid byte encoding in blob", "RowNotFound", "proof does not verify"}

\* The blob cannot be decoded, or updates a list absent from ad, or carries a
\* proof that does not verify against the list's latest stored state.
Fails(d, b) ==
    \/ b.type = "garbage"
    \/ /\ b.type = "update"
       /\ \/ ~ \E a \in d.ad : a.id = b.id
          \/ ~ \E a \in d.ad : \E u \in RowsOf(d, b.id) :
                /\ a.id = b.id
                /\ \A w \in RowsOf(d, b.id) : w.num <= u.num
                /\ b.shrunk_main_pod_proof.attests =
                       <<a.custom_predicate_ref, b.new_state, u.state, a.vds_root>>

\* The blob just met was dropped: no row added, the failure logged, the walker
\* still in the blob loop.
Dropped ==
    /\ tx' = tx
    /\ db' = db
    /\ pc' = "blobs"
    /\ last_log' \in InvalidLogs

\* C9: a blob whose processing fails (not decodable, Update for a list absent
\* from ad, proof not verifying against the latest stored state) adds no row to
\* ad, ad_update or blob; the failure is logged and the walker stays in the
\* slot's blob loop, from which the slot is recorded as visited.  Stated per
\* step of the blob loop: the step drops its blob, or it is the step of no
\* failing blob.
C9_FailingBlobDropped ==
    [][(pc \in {"first_blob", "blobs"} /\ nblobs' = nblobs + 1) =>
            \/ Dropped
            \/ \A b \in Blobs : ~ (Fails(tx, b) /\ ProcessBlob(b))
      ]_vars

\* A slot whose last blob failed verification is recorded as visited, rows of
\* an earlier blob of the slot with it.
C9_VisitedAfterFailure ==
    /\ pc = "commit"
    /\ last_log = "proof does not verify"
    /\ tx.blob # db.blob
    /\ slot \in VisitedSlots(tx)

\* A row is added to ad, ad_update or blob
RowAdded ==
    \/ tx'.ad \ tx.ad # {}
    \/ tx'.ad_update \ tx.ad_update # {}
    \/ tx'.blob \ tx.blob # {}

\* C10: rows are added to ad, ad_update and blob only while the walker is at a
\* blob of a transaction whose `to` is the AD address; a transaction to another
\* address and a contract creation are passed over without any row added.
C10_OnlyAdAddress ==
    [][/\ RowAdded => (pc \in {"first_blob", "blobs"} /\ tx_to = ToAddr)
       /\ \A to \in TxTo \ {ToAddr} :
            NextTx(to) => (tx' = tx /\ db' = db /\ pc' = "txs")
      ]_vars

\* A block's blobs all went to other destinations and the slot is recorded
\* with no row added.
C10_ForeignBlobsPassedOver ==
    /\ pc = "commit"
    /\ tx_to \in {"other_addr", NoAddr}
    /\ nblobs = MaxBlockBlobs
    /\ tx.blob = db.blob

\* ---------------------------------------------------------------------------
\* The coordinator: requests, statuses and the state helper
\* ---------------------------------------------------------------------------

\* The most requests the handlers accept in one run
MaxReq == 4

\* The capacity of the queue channel
QueueCapacity == 8

Groups == {"red", "green", "blue"}
\* The groups and users the requests name
OpGroups == {"red", "green"}
Users == {"alice"}

\* Op::Init, Op::Add{group, user}, Op::Del{group, user}
Ops ==
    {[name |-> "init"]}
        \cup [name : {"add", "del"}, group : OpGroups, user : Users]

\* Dictionary::new(max_depth, HashMap::new()): no key at all
EmptyDict == <<>>

\* The commitment of a container: a binding digest of its content
Commitment(container) == [root |-> container]

\* Value::from(EMPTY_VALUE): the commitment of the dictionary without keys
EmptyCommitment == Commitment(EmptyDict)

\* The outcomes of a fallible call: Ok(value), Err(msg), or a panic
StOk(new) == [tag |-> "ok", state |-> new]
StErr(msg) == [tag |-> "err", msg |-> msg]
StPanic == [tag |-> "panic"]

st_init(old, op) ==
    IF Commitment(old) # EmptyCommitment
    THEN StErr("old state is not empty")
    ELSE StOk([g \in Groups |-> {}])

st_add_del_unchecked(old, op) ==
    IF op.group \notin DOMAIN old
    THEN StPanic
    ELSE IF op.name = "add"
         THEN StOk([old EXCEPT ![op.group] = @ \cup {op.user}])
         ELSE StOk([old EXCEPT ![op.group] = @ \ {op.user}])

st_add_del_all_groups(old, op) ==
    IF op.group \notin DOMAIN old
    THEN StPanic
    ELSE IF op.name = "add"
         THEN IF op.user \in old[op.group]
              THEN StErr("old_group already contains user")
              ELSE StOk([g \in DOMAIN old |-> old[g] \cup {op.user}])
         ELSE IF op.user \notin old[op.group]
              THEN StErr("old_group doesn't contain user")
              ELSE StOk([g \in DOMAIN old |-> old[g] \ {op.user}])

st_add_del(old, op) ==
    IF op.group \notin DOMAIN old
    THEN StPanic
    ELSE IF op.name = "add"
         THEN IF op.user \in old[op.group]
              THEN StErr("old_group already contains user")
              ELSE StOk([old EXCEPT ![op.group] = @ \cup {op.user}])
         ELSE IF op.user \notin old[op.group]
              THEN StErr("old_group doesn't contain user")
              ELSE StOk([old EXCEPT ![op.group] = @ \ {op.user}])

st_update(old, op) ==
    CASE op.name = "init" -> st_init(old, op)
      [] op.name \in {"add", "del"} -> st_add_del(old, op)
      [] OTHER -> StPanic

\* The requests of the queue
CreateReq(req_id) == [kind |-> "Create", req_id |-> req_id]
UpdateReq(req_id, id, op) == [kind |-> "Update", req_id |-> req_id, id |-> id, op |-> op]
UpdateRevReq_first(req_id, id, num) ==
    [kind |-> "UpdateRev", req_id |-> req_id, id |-> id, num |-> 1]
UpdateRevReq(req_id, id, num) ==
    [kind |-> "UpdateRev", req_id |-> req_id, id |-> id, num |-> num]
QueryReq(req_id, id, user) ==
    [kind |-> "Query", req_id |-> req_id, id |-> id, user |-> user]

\* The list the update and query requests name
ReqIds == {1}

\* What a handler can be asked
Asked(req_id) ==
    {CreateReq(req_id)}
        \cup {UpdateReq(req_id, id, op) : id \in ReqIds, op \in Ops}
        \cup {QueryReq(req_id, id, user) : id \in ReqIds, user \in Users}

\* The statuses of a request
Status(variant, phase) == [variant |-> variant, phase |-> phase]
Pending(kind) == Status(kind, "Pending")
ErrorStatus(kind, msg) == [variant |-> kind, phase |-> "Error", msg |-> msg]

\* set_req_state, and handle_req's insert of Error
set_req_state_first(qs, req_id, status) == [qs EXCEPT ![1] = status]
set_req_state(qs, req_id, status) == [qs EXCEPT ![req_id] = status]

\* ---------------------------------------------------------------------------
\* The coordinator's database, pods and blob sender
\* ---------------------------------------------------------------------------

\* SELECT ... ORDER BY id DESC LIMIT 1: the id of the latest list, 0 on an empty table
get_latest_membership_list_count(d) == Cardinality(d) - 1
get_latest_membership_list(d) ==
    IF d = {} THEN 0 ELSE CHOOSE i \in {r.id : r \in d} : \A r \in d : r.id <= i

\* an insert that reports success and writes no row
insert_membership_list_unwritten(d, row) == Ok(d)
\* INSERT INTO membership_list: id is the primary key
insert_membership_list(d, row) ==
    IF \E r \in d : r.id = row.id
    THEN Err(d, "UNIQUE constraint failed: membership_list.id")
    ELSE Ok(d \cup {row})

\* SELECT ... WHERE id = ?: fetch_one fails on no row
HasList(d, id) == \E r \in d : r.id = id
get_membership_list(d, id) == CHOOSE r \in d : r.id = id

\* UPDATE membership_list SET num, state WHERE id = ?
update_membership_list_same_num(d, id, num, state) ==
    {IF r.id = id THEN [r EXCEPT !.state = state] ELSE r : r \in d}

update_membership_list(d, id, num, state) ==
    {IF r.id = id THEN [r EXCEPT !.num = num, !.state = state] ELSE r : r \in d}

HasRevList(id) == \E r \in rev_db : r.id = id
\* SELECT state, num FROM rev_membership_list WHERE id = ?
get_rev_membership_list(d, id) == CHOOSE r \in d : r.id = id
\* UPDATE rev_membership_list SET state = ?, num = ? WHERE id = ?
update_rev_membership_list(d, id, num, state) ==
    {IF r.id = id THEN [r EXCEPT !.num = num, !.state = state] ELSE r : r \in d}

\* store_pod writes the file of that name, load_pod fails when there is none
PodName(id, num, kind) == <<id, num, kind>>
store_pod(ps, name, content) ==
    {p \in ps : p.name # name} \cup {[name |-> name, content |-> content]}
HasPod(ps, name) == \E p \in ps : p.name = name

\* eth::send_payload: the receiver of the blob transaction
Receiver == "0x4242"

\* Payload::Create and Payload::Update
PayloadCreate(id) ==
    [kind |-> "Create", id |-> id, custom_predicate_ref |-> "update",
     vds_root |-> "vds", to |-> Receiver]
PayloadUpdate(id, new_state, op) ==
    [kind |-> "Update", id |-> id, new_state |-> Commitment(new_state),
     op |-> op, to |-> Receiver]

\* send_payload returns at once when priv_key is empty and sends nothing; else
\* the transaction is sent, or fails
SendOutcomes == IF test_mode THEN {"ok"} ELSE {"ok", "err"}
send_payload(log, payload) == IF test_mode THEN log ELSE Append(log, payload)

\* The main pod prover and the wrapper succeed or fail
ProveOutcomes == {"ok", "fail"}

\* The records the handlers have created
Accepted == Cardinality({i \in DOMAIN queue_state : queue_state[i].variant # "UpdateRev"})
NextReqId == Len(queue_state) + 1

\* ---------------------------------------------------------------------------
\* The coordinator: the handlers of the endpoints and the queue consumer
\* ---------------------------------------------------------------------------

\* handler_new_dict, handler_update, handler_query: the status is created as
\* Pending and the request is sent to the channel; the send waits while the
\* channel is full
Accept(req) ==
    /\ cpc # "dead"
    /\ req.req_id = NextReqId
    /\ queue_state' = Append(queue_state, Pending(req.kind))
    /\ IF Len(queue) < QueueCapacity
       THEN queue' = Append(queue, req) /\ UNCHANGED blocked
       ELSE blocked' = blocked \cup {req} /\ UNCHANGED queue
    /\ UNCHANGED <<test_mode, rev_db, cdb, cur, cpc, pods, sent>>

\* A waiting handler's send completes when the channel has room
Unblock ==
    /\ cpc # "dead"
    /\ Len(queue) < QueueCapacity
    /\ \E req \in blocked :
        /\ queue' = Append(queue, req)
        /\ blocked' = blocked \ {req}
    /\ UNCHANGED <<test_mode, rev_db, cdb, queue_state, cur, cpc, pods, sent>>

\* handle_loop has received a request of that kind
Received_while_busy(kind) ==
    /\ cpc # "dead"
    /\ queue # <<>>
    /\ Head(queue).kind = kind
    /\ queue' = Tail(queue)
Received_kept(kind) ==
    /\ cpc = "recv"
    /\ queue # <<>>
    /\ Head(queue).kind = kind
    /\ queue' = queue
Received(kind) ==
    /\ cpc = "recv"
    /\ queue # <<>>
    /\ Head(queue).kind = kind
    /\ queue' = Tail(queue)

\* The request ends with an error: handle_req records it
Failed(req, msg) ==
    /\ queue_state' = set_req_state(queue_state, req.req_id, ErrorStatus(req.kind, msg))
    /\ cpc' = "recv"

\* A panic: the panic hook exits the process
Panicked == cpc' = "dead" /\ UNCHANGED queue_state

\* handle_create up to the blob transaction
handle_create ==
    /\ Received("Create")
    /\ cur' = Head(queue)
    /\ queue_state' = set_req_state(queue_state, Head(queue).req_id, Status("Create", "SendingBlobTx"))
    /\ cpc' = "create_send"
    /\ UNCHANGED <<test_mode, rev_db, cdb, blocked, pods, sent>>

\* handle_create from the blob transaction on
handle_create_send ==
    /\ cpc = "create_send"
    /\ \E out \in SendOutcomes :
        LET new_id == get_latest_membership_list(cdb) + 1
            membership_list == [id |-> new_id, num |-> 0, state |-> EmptyDict]
            res == insert_membership_list(cdb, membership_list)
        IN  IF out = "err"
            THEN Failed(cur, "send_payload") /\ UNCHANGED <<cdb, sent>>
            ELSE /\ sent' = send_payload(sent, PayloadCreate(new_id))
                 /\ IF res.ok
                    THEN /\ cdb' = res.db
                         /\ queue_state' = set_req_state(queue_state, cur.req_id,
                                [variant |-> "Create", phase |-> "Complete", id |-> new_id])
                         /\ cpc' = "recv"
                    ELSE Failed(cur, res.err) /\ UNCHANGED cdb
    /\ UNCHANGED <<test_mode, rev_db, queue, blocked, cur, pods>>

\* handle_update up to the prover
handle_update ==
    /\ Received("Update")
    /\ cur' = Head(queue)
    /\ IF ~ HasList(cdb, Head(queue).id)
       THEN Failed(Head(queue), "RowNotFound")
       ELSE LET res == st_update(get_membership_list(cdb, Head(queue).id).state, Head(queue).op)
            IN  CASE res.tag = "err" -> Failed(Head(queue), res.msg)
                  [] res.tag = "panic" -> Panicked
                  [] OTHER ->
                        /\ queue_state' = set_req_state(queue_state, Head(queue).req_id,
                                Status("Update", "ProvingMainPod"))
                        /\ cpc' = "update_prove"
    /\ UNCHANGED <<test_mode, rev_db, cdb, blocked, pods, sent>>

\* handle_update: builder.prove(..).unwrap(), verify().unwrap(), store_pod
handle_update_prove ==
    /\ cpc = "update_prove"
    /\ \E out \in ProveOutcomes :
        IF out = "fail"
        THEN Panicked /\ UNCHANGED pods
        ELSE LET membership_list == get_membership_list(cdb, cur.id)
                 num == membership_list.num + 1
             IN  /\ pods' = store_pod(pods, PodName(cur.id, num, "membership_list"), cur.op)
                 /\ queue_state' = set_req_state(queue_state, cur.req_id,
                        Status("Update", "WrappingMainPod"))
                 /\ cpc' = "update_wrap"
    /\ UNCHANGED <<test_mode, rev_db, cdb, queue, blocked, cur, sent>>

\* handle_update: shrink_compress_pod(..).unwrap() or groth::prove(..).unwrap()
handle_update_wrap ==
    /\ cpc = "update_wrap"
    /\ \E out \in ProveOutcomes :
        IF out = "fail"
        THEN Panicked
        ELSE /\ queue_state' = set_req_state(queue_state, cur.req_id,
                    Status("Update", "SendingBlobTx"))
             /\ cpc' = "update_send"
    /\ UNCHANGED <<test_mode, rev_db, cdb, queue, blocked, cur, pods, sent>>

\* handle_update: the blob transaction, the database, Complete, and the status
\* of the UpdateRev it schedules
handle_update_send ==
    /\ cpc = "update_send"
    /\ \E out \in SendOutcomes :
        LET membership_list == get_membership_list(cdb, cur.id)
            num == membership_list.num + 1
            new_state == st_update(membership_list.state, cur.op).state
            req_id == NextReqId
        IN  IF out = "err"
            THEN /\ queue_state' = set_req_state(queue_state, cur.req_id,
                        ErrorStatus("Update", "send_payload"))
                 /\ cpc' = "recv"
                 /\ UNCHANGED <<cdb, sent, cur>>
            ELSE /\ sent' = send_payload(sent, PayloadUpdate(cur.id, new_state, cur.op))
                 /\ cdb' = update_membership_list(cdb, cur.id, num, new_state)
                 /\ queue_state' = Append(
                        set_req_state(queue_state, cur.req_id,
                            Status("Update", "Complete")),
                        Pending("UpdateRev"))
                 /\ cur' = UpdateRevReq(req_id, cur.id, num)
                 /\ cpc' = "update_schedule"
    /\ UNCHANGED <<test_mode, rev_db, queue, blocked, pods>>

\* handle_update: queue_tx.send(Request::UpdateRev{..}).await, which waits
\* while the channel is full
handle_update_schedule ==
    /\ cpc = "update_schedule"
    /\ Len(queue) < QueueCapacity
    /\ queue' = Append(queue, cur)
    /\ cpc' = "recv"
    /\ UNCHANGED <<test_mode, rev_db, cdb, blocked, queue_state, cur, pods, sent>>

\* handle_update_rev up to the prover
handle_update_rev ==
    /\ Received("UpdateRev")
    /\ cur' = Head(queue)
    /\ CASE Head(queue).num = 0 -> Failed(Head(queue), "num = 0, state not initialized")
         [] Head(queue).num # 0 /\ ~ HasPod(pods, PodName(Head(queue).id, Head(queue).num, "membership_list")) ->
                Failed(Head(queue), "load_pod")
         [] Head(queue).num > 1
            /\ HasPod(pods, PodName(Head(queue).id, Head(queue).num, "membership_list"))
            /\ ~ HasPod(pods, PodName(Head(queue).id, Head(queue).num - 1, "rev_membership_list")) ->
                Failed(Head(queue), "load_pod")
         [] Head(queue).num > 1
            /\ HasPod(pods, PodName(Head(queue).id, Head(queue).num, "membership_list"))
            /\ HasPod(pods, PodName(Head(queue).id, Head(queue).num - 1, "rev_membership_list"))
            /\ ~ HasRevList(Head(queue).id) ->
                Failed(Head(queue), "RowNotFound")
         [] OTHER ->
                /\ queue_state' = set_req_state(queue_state, Head(queue).req_id,
                        Status("UpdateRev", "ProvingRevMainPod"))
                /\ cpc' = "rev_prove"
    /\ UNCHANGED <<test_mode, rev_db, cdb, blocked, pods, sent>>

\* handle_update_rev: builder.prove(..) whose error is returned, store_pod,
\* update_rev_membership_list, Complete
handle_update_rev_prove ==
    /\ cpc = "rev_prove"
    /\ \E out \in ProveOutcomes :
        IF out = "fail"
        THEN /\ queue_state' = set_req_state(queue_state, cur.req_id,
                    ErrorStatus("UpdateRev", "prove"))
             /\ UNCHANGED <<pods, rev_db>>
        ELSE /\ pods' = store_pod(pods, PodName(cur.id, cur.num, "rev_membership_list"),
                            [num |-> cur.num])
             /\ rev_db' = update_rev_membership_list(rev_db, cur.id, cur.num, [num |-> cur.num])
             /\ queue_state' = set_req_state(queue_state, cur.req_id,
                    Status("UpdateRev", "Complete"))
    /\ cpc' = "recv"
    /\ UNCHANGED <<test_mode, cdb, queue, blocked, cur, sent>>

\* The groups of the state whose set holds the user, each with the set's commitment
query_all_groups(state, user) ==
    [g \in DOMAIN state |-> Commitment(state[g])]
query_result(state, user) ==
    [g \in {h \in DOMAIN state : user \in state[h]} |-> Commitment(state[g])]

\* handle_query
handle_query ==
    /\ Received("Query")
    /\ cur' = Head(queue)
    /\ IF ~ HasList(cdb, Head(queue).id)
       THEN Failed(Head(queue), "RowNotFound")
       ELSE /\ queue_state' = set_req_state(queue_state, Head(queue).req_id,
                    [variant |-> "Query", phase |-> "Complete",
                     result |-> query_result(get_membership_list(cdb, Head(queue).id).state,
                                             Head(queue).user)])
            /\ cpc' = "recv"
    /\ UNCHANGED <<test_mode, rev_db, cdb, blocked, pods, sent>>

\* The coordinator after start-up on an empty database
CoordInit ==
    /\ SyncInit
    /\ TransportIdle /\ AppIdle
    /\ CodecIdle
    /\ test_mode \in BOOLEAN
    /\ cdb = {}
    /\ queue = <<>>
    /\ blocked = {}
    /\ queue_state = <<>>
    /\ cur = NoReq
    /\ cpc = "recv"
    /\ pods = {}
    /\ sent = <<>>
    /\ rev_db = rev_membership_list

CoordNext ==
    \/ /\ Accepted < MaxReq
       /\ \E req \in Asked(NextReqId) : Accept(req)
       /\ UNCHANGED <<svars, ovars>>
    \/ handle_create /\ UNCHANGED <<svars, ovars>>
    \/ handle_create_send /\ UNCHANGED <<svars, ovars>>
    \/ handle_update /\ UNCHANGED <<svars, ovars>>
    \/ handle_update_prove /\ UNCHANGED <<svars, ovars>>
    \/ handle_update_wrap /\ UNCHANGED <<svars, ovars>>
    \/ handle_update_send /\ UNCHANGED <<svars, ovars>>
    \/ handle_update_schedule /\ UNCHANGED <<svars, ovars>>
    \/ handle_update_rev /\ UNCHANGED <<svars, ovars>>
    \/ handle_update_rev_prove /\ UNCHANGED <<svars, ovars>>
    \/ handle_query /\ UNCHANGED <<svars, ovars>>

\* The coordinator serving requests
CoordSpec == CoordInit /\ [][CoordNext]_vars

\* ---------------------------------------------------------------------------
\* The coordinator in test mode under a burst of requests
\* ---------------------------------------------------------------------------

\* The most requests the handlers accept in a burst
MaxBurst == 10

\* The requests of the burst: new lists, and the initialisation of list 1
BurstAsked(req_id) ==
    {CreateReq(req_id), UpdateReq(req_id, 1, [name |-> "init"])}

\* Config.priv_key is empty
BurstInit ==
    /\ SyncInit
    /\ TransportIdle /\ AppIdle
    /\ CodecIdle
    /\ test_mode = TRUE
    /\ cdb = {}
    /\ queue = <<>>
    /\ blocked = {}
    /\ queue_state = <<>>
    /\ cur = NoReq
    /\ cpc = "recv"
    /\ pods = {}
    /\ sent = <<>>
    /\ rev_db = rev_membership_list

BurstNext ==
    \/ /\ Accepted < MaxBurst
       /\ \E req \in BurstAsked(NextReqId) : Accept(req)
       /\ UNCHANGED <<svars, ovars>>
    \/ Unblock /\ UNCHANGED <<svars, ovars>>
    \/ handle_create /\ UNCHANGED <<svars, ovars>>
    \/ handle_create_send /\ UNCHANGED <<svars, ovars>>
    \/ handle_update /\ UNCHANGED <<svars, ovars>>
    \/ handle_update_prove /\ UNCHANGED <<svars, ovars>>
    \/ handle_update_wrap /\ UNCHANGED <<svars, ovars>>
    \/ handle_update_send /\ UNCHANGED <<svars, ovars>>
    \/ handle_update_schedule /\ UNCHANGED <<svars, ovars>>
    \/ handle_update_rev /\ UNCHANGED <<svars, ovars>>
    \/ handle_update_rev_prove /\ UNCHANGED <<svars, ovars>>

\* The coordinator serving a burst of requests in test mode
BurstSpec == BurstInit /\ [][BurstNext]_vars

\* ---------------------------------------------------------------------------
\* The coordinator and the synchronizer on one chain
\* ---------------------------------------------------------------------------
\* Both are configured with TO_ADDR = ToAddr; the coordinator has a private key
\* and is the only sender of blob transactions; every transaction it sends is
\* included in the block of the next slot.  Neither process crashes.

\* The most requests the handlers accept
MaxChainReq == 2

\* The requests: new lists, and the initialisation of list 1
ChainAsked(req_id) ==
    {CreateReq(req_id), UpdateReq(req_id, 1, [name |-> "init"])}

ChainInit ==
    /\ SyncInit
    /\ TransportIdle /\ AppIdle
    /\ CodecIdle
    /\ test_mode = FALSE
    /\ cdb = {}
    /\ queue = <<>>
    /\ blocked = {}
    /\ queue_state = <<>>
    /\ cur = NoReq
    /\ cpc = "recv"
    /\ pods = {}
    /\ sent = <<>>
    /\ rev_db = rev_membership_list

\* The transaction included in a slot: slot 1 has none, slot k + 1 has the
\* k-th transaction sent
HasPayload(s) == s >= 2 /\ s - 1 <= Len(sent)
PayloadAt(s) == sent[s - 1]

\* The block of the next sent transaction is produced
Include ==
    /\ HeadSlot <= Len(sent)
    /\ beacon' = Append(beacon, TRUE)
    /\ UNCHANGED <<db, tx, pc, slot, initial_slot, head0, tx_to, last_log, nblobs>>

\* The block of the slot has blobs exactly when it holds a sent transaction
FetchIncluded ==
    /\ FetchBlock
    /\ (pc' = "txs") <=> HasPayload(slot)

\* The block's transaction, with the receiver the coordinator gave it
NextIncludedTx ==
    /\ nblobs = 0
    /\ HasPayload(slot)
    /\ NextTx(PayloadAt(slot).to)

ChainNext ==
    \/ /\ Accepted < MaxChainReq
       /\ \E req \in ChainAsked(NextReqId) : Accept(req)
       /\ UNCHANGED <<svars, ovars>>
    \/ handle_create /\ UNCHANGED <<svars, ovars>>
    \/ handle_create_send /\ UNCHANGED <<svars, ovars>>
    \/ handle_update /\ UNCHANGED <<svars, ovars>>
    \/ handle_update_prove /\ UNCHANGED <<svars, ovars>>
    \/ handle_update_wrap /\ UNCHANGED <<svars, ovars>>
    \/ handle_update_send /\ UNCHANGED <<svars, ovars>>
    \/ handle_update_schedule /\ UNCHANGED <<svars, ovars>>
    \/ handle_update_rev /\ UNCHANGED <<svars, ovars>>
    \/ handle_update_rev_prove /\ UNCHANGED <<svars, ovars>>
    \/ Include /\ UNCHANGED <<cvars, ovars>>
    \/ Start /\ UNCHANGED <<cvars, ovars>>
    \/ SlotBegin /\ UNCHANGED <<cvars, ovars>>
    \/ FetchIncluded /\ UNCHANGED <<cvars, ovars>>
    \/ NextIncludedTx /\ UNCHANGED <<cvars, ovars>>
    \/ EndBlock /\ UNCHANGED <<cvars, ovars>>
    \/ VisitSlot /\ UNCHANGED <<cvars, ovars>>
    \/ Commit /\ UNCHANGED <<cvars, ovars>>

\* The coordinator sending to the chain the synchronizer follows
ChainSpec == ChainInit /\ [][ChainNext]_vars

\* ---------------------------------------------------------------------------
\* Properties of the coordinator
\* ---------------------------------------------------------------------------

\* The requests of a variant in a phase
InPhase(qs, variant, phase) ==
    {i \in DOMAIN qs : qs[i].variant = variant /\ qs[i].phase = phase}

\* The largest id of the table, 0 when it is empty
LargestId(d) == IF d = {} THEN 0 ELSE CHOOSE i \in {r.id : r \in d} : \A r \in d : r.id <= i

\* A step in which the Create in hand completes
CreateCompletes ==
    /\ cpc = "create_send"
    /\ queue_state'[cur.req_id].phase = "Complete"

\* C11: a Create that completes reports the largest stored id (0 on an empty
\* table) plus one, and has stored exactly one new row with that id, num 0 and
\* the empty state; on a database that starts empty the k-th completed Create
\* reports k, and no two completed Creates report the same id
C11_CreateAssignsNextId ==
    [][CreateCompletes =>
            LET id == queue_state'[cur.req_id].id
            IN  /\ id = LargestId(cdb) + 1
                /\ cdb' = cdb \cup {[id |-> id, num |-> 0, state |-> EmptyDict]}
                /\ ~ HasList(cdb, id)
                /\ id = Cardinality(InPhase(queue_state, "Create", "Complete")) + 1
                /\ \A i \in InPhase(queue_state, "Create", "Complete") :
                        queue_state[i].id # id
      ]_vars

\* Two Creates have completed, with ids 1 and 2
C11_TwoListsCreated ==
    /\ \E i, j \in InPhase(queue_state, "Create", "Complete") :
            queue_state[i].id = 1 /\ queue_state[j].id = 2
    /\ HasList(cdb, 1) /\ HasList(cdb, 2)

\* The place of a status in its variant's declaration; Error is last
PhaseOrder(variant) ==
    CASE variant = "Create" -> <<"Pending", "SendingBlobTx", "Complete">>
      [] variant = "Update" ->
            <<"Pending", "ProvingMainPod", "WrappingMainPod", "SendingBlobTx", "Complete">>
      [] variant = "UpdateRev" -> <<"Pending", "ProvingRevMainPod", "Complete">>
      [] variant = "Query" -> <<"Pending", "Complete">>
Rank(status) ==
    IF status.phase = "Error"
    THEN 9
    ELSE CHOOSE k \in 1..Len(PhaseOrder(status.variant)) :
            PhaseOrder(status.variant)[k] = status.phase
Terminal(status) == status.phase \in {"Complete", "Error"}

\* The request the consumer works on in this step
InHand == IF cpc = "recv" /\ queue # <<>> THEN Head(queue).req_id ELSE cur.req_id

\* C12: a request's status is created as Pending, then only moves forward along
\* its variant's order, one status at a time, or to Error from a status that is
\* not terminal; it never goes back, a terminal status stays, and an existing
\* status is written only by the consumer, for the request it has in hand
C12_StatusMovesForward ==
    [][/\ \A i \in DOMAIN queue_state :
            /\ i \in DOMAIN queue_state'
            /\ queue_state'[i].variant = queue_state[i].variant
            /\ \/ queue_state'[i] = queue_state[i]
               \/ /\ ~ Terminal(queue_state[i])
                  /\ i = InHand
                  /\ \/ queue_state'[i].phase = "Error"
                     \/ Rank(queue_state'[i]) = Rank(queue_state[i]) + 1
       /\ \A i \in DOMAIN queue_state' \ DOMAIN queue_state :
            queue_state'[i].phase = "Pending"
      ]_vars

\* An Update and the UpdateRev it scheduled went through every status, and
\* another request ended in Error
C12_AllStatusesPassed ==
    /\ InPhase(queue_state, "Update", "Complete") # {}
    /\ InPhase(queue_state, "UpdateRev", "Complete") # {}
    /\ InPhase(queue_state, "Update", "Error") # {}
    /\ InPhase(queue_state, "Create", "Complete") # {}

\* C13: Error is terminal: once a request's status is Error no step changes
\* it, and the consumer does not take the request up again: it is not in the
\* channel and it is not the next request the consumer receives
C13_ErrorIsFinal ==
    [][\A i \in DOMAIN queue_state :
            queue_state[i].phase = "Error" =>
                /\ queue_state'[i] = queue_state[i]
                /\ \A k \in 1..Len(queue') : queue'[k].req_id # i
                /\ \A req \in blocked' : req.req_id # i
                /\ cur' # cur => cur'.req_id # i
      ]_vars

\* A request ended in Error and the consumer completed a later one
C13_CompletedAfterError ==
    \E i, j \in DOMAIN queue_state :
        /\ i < j
        /\ queue_state[i].phase = "Error"
        /\ queue_state[j].phase = "Complete"

\* The consumer receives an Update for a stored list in this step
UpdateReceived ==
    /\ cpc = "recv"
    /\ queue # <<>>
    /\ Head(queue).kind = "Update"
    /\ queue' = Tail(queue)
    /\ HasList(cdb, Head(queue).id)

\* The updates the state rules refuse, with the helper's message
Refused(state, op) ==
    \/ op.name = "init" /\ state # EmptyDict
    \/ op.name = "add" /\ op.group \in DOMAIN state /\ op.user \in state[op.group]
    \/ op.name = "del" /\ op.group \in DOMAIN state /\ op.user \notin state[op.group]
HelperMessage(op) ==
    CASE op.name = "init" -> "old state is not empty"
      [] op.name = "add" -> "old_group already contains user"
      [] op.name = "del" -> "old_group doesn't contain user"

\* C14: an Update that adds a user already in the group, deletes a user not in
\* it, or initialises a state that is not empty ends in Update(Error(msg)) with
\* the helper's message under its request id; the list's row, the pods and the
\* sent payloads stay as they were, no UpdateRev is scheduled, and the consumer
\* is ready for the next request
C14_RefusedUpdateChangesNothing ==
    [][(UpdateReceived
            /\ Refused(get_membership_list(cdb, Head(queue).id).state, Head(queue).op)) =>
            /\ queue_state' = [queue_state EXCEPT ![Head(queue).req_id] =
                    [variant |-> "Update", phase |-> "Error",
                     msg |-> HelperMessage(Head(queue).op)]]
            /\ cdb' = cdb
            /\ pods' = pods
            /\ sent' = sent
            /\ \A k \in 1..Len(queue') : queue'[k].kind = "UpdateRev" =>
                    \E j \in 1..Len(queue) : queue[j] = queue'[k]
            /\ cpc' = "recv"
      ]_vars

\* An Add of a user the group holds has ended in Error; the list is at
\* revision 2 with the user in the group
C14_SecondAddRefused ==
    /\ \E i \in InPhase(queue_state, "Update", "Error") :
            queue_state[i].msg = "old_group already contains user"
    /\ \E r \in cdb : r.num = 2 /\ r.state # EmptyDict /\ "alice" \in r.state["red"]
    /\ cpc = "recv"

\* C15: no failure while a request is handled ends the consumer: whatever
\* fails (the list is not found, the state helper, the prover, the pod
\* verification, the blob transaction, the database), the consumer lives on
C15_ConsumerSurvivesEveryFailure == cpc # "dead"

\* C16: an Update with op Add{group, user} that follows the Create of its list
\* (the list is at revision 0) is on its way to Complete: when the consumer
\* takes it up, the state helper accepts it and the request goes on to the prover
C16_AddAfterCreateProceeds ==
    [][(/\ UpdateReceived
        /\ Head(queue).op.name = "add"
        /\ get_membership_list(cdb, Head(queue).id).num = 0) =>
            /\ cpc' = "update_prove"
            /\ queue_state'[Head(queue).req_id] = Status("Update", "ProvingMainPod")
      ]_vars

\* C17: in test mode the consumer never waits forever: when a finished Update
\* schedules its UpdateRev on the queue channel, the channel has room for it,
\* however many requests wait in it (only the consumer takes requests out of
\* the channel, so a send of the consumer that finds the channel full never
\* completes and no waiting request is handled any more)
C17_ScheduleFindsRoom ==
    cpc = "update_schedule" => Len(queue) < QueueCapacity

\* The consumer receives a Query in this step
QueryReceived ==
    /\ cpc = "recv"
    /\ queue # <<>>
    /\ Head(queue).kind = "Query"
    /\ queue' = Tail(queue)

\* C18: a Query on a stored list completes with a result whose keys are
\* exactly the groups whose set holds the user (no key when no group does),
\* each with the commitment of that group's set as root; a Query on an unknown
\* list ends in Error; in both cases the lists, their states and revisions,
\* the pods and the sent payloads are unchanged
C18_QueryResultIsMembership ==
    [][QueryReceived =>
            LET req == Head(queue)
                status == queue_state'[req.req_id]
            IN  /\ cdb' = cdb /\ pods' = pods /\ sent' = sent
                /\ IF \E r \in cdb : r.id = req.id
                   THEN LET state == (CHOOSE r \in cdb : r.id = req.id).state
                        IN  /\ status.variant = "Query" /\ status.phase = "Complete"
                            /\ DOMAIN status.result =
                                    {g \in DOMAIN state : req.user \in state[g]}
                            /\ \A g \in DOMAIN status.result :
                                    status.result[g] = Commitment(state[g])
                   ELSE status.variant = "Query" /\ status.phase = "Error"
      ]_vars

\* A Query has completed with red as the only group of the user
C18_QueryFoundOneGroup ==
    \E i \in InPhase(queue_state, "Query", "Complete") :
        /\ DOMAIN queue_state[i].result = {"red"}
        /\ queue_state[i].result["red"] = Commitment({"alice"})

\* The Add and the Del of a user
AddOp(g, u) == [name |-> "add", group |-> g, user |-> u]
DelOp(g, u) == [name |-> "del", group |-> g, user |-> u]

\* The step in which an Update writes the list's row
UpdateCommits == cpc = "update_send" /\ cdb' # cdb

\* C19: on an initialised list with state S, for a group g and a user u not in
\* S[g], Add{g, u} is accepted and then Del{g, u} is accepted, the state after
\* both is S again, and each of the two leaves every other group's set as it
\* was; every Update that is committed raises the list's revision by exactly
\* one and stores the state the helper returned, so the pair takes the list
\* from revision n to n + 2
C19_AddThenDelRestoresState ==
    [][/\ \A r \in cdb : \A g \in OpGroups : \A u \in Users :
            (r.state # EmptyDict /\ u \notin r.state[g]) =>
                LET added == st_update(r.state, AddOp(g, u))
                    deleted == st_update(added.state, DelOp(g, u))
                IN  /\ added.tag = "ok"
                    /\ added.state[g] = r.state[g] \cup {u}
                    /\ \A h \in Groups \ {g} : added.state[h] = r.state[h]
                    /\ deleted.tag = "ok"
                    /\ \A h \in Groups \ {g} : deleted.state[h] = added.state[h]
                    /\ deleted.state = r.state
       /\ UpdateCommits =>
            \E old \in cdb :
                /\ old.id = cur.id
                /\ cdb' = (cdb \ {old}) \cup
                        {[id |-> old.id, num |-> old.num + 1,
                          state |-> st_update(old.state, cur.op).state]}
      ]_vars

\* List 1 was initialised, then alice was added to red and deleted from it:
\* the list is at revision 3 with the state of revision 1
C19_AddAndDelCommitted ==
    /\ \E p \in pods : p.name = PodName(1, 2, "membership_list")
                        /\ p.content = AddOp("red", "alice")
    /\ \E p \in pods : p.name = PodName(1, 3, "membership_list")
                        /\ p.content = DelOp("red", "alice")
    /\ cdb = {[id |-> 1, num |-> 3, state |-> [g \in Groups |-> {}]]}

\* The value the synchronizer stores for a state of the coordinator: the
\* state's commitment (EMPTY_VALUE for the dictionary without keys)
StateValue(state) ==
    IF Commitment(state) = EmptyCommitment THEN EMPTY_VALUE
    ELSE IF \A g \in DOMAIN state : state[g] = {} THEN 1 ELSE 2

\* The coordinator is at rest and the synchronizer has processed every slot
\* that holds one of its transactions
AllProcessed ==
    /\ cpc = "recv" /\ queue = <<>> /\ blocked = {}
    /\ pc = "check"
    /\ slot > Len(sent) + 1

\* C20: end-to-end agreement: with the coordinator and the synchronizer
\* configured with the same TO_ADDR, the coordinator the only sender and no
\* crash, once the synchronizer has processed every slot that holds a
\* transaction of the coordinator, for every list of the coordinator the
\* synchronizer's latest ad_update row has the coordinator's num and the
\* commitment of the coordinator's state
C20_SynchronizerAgrees ==
    AllProcessed =>
        \A r \in cdb :
            /\ get_ad_update_last(db, r.id) # {}
            /\ \A row \in get_ad_update_last(db, r.id) :
                    row.num = r.num /\ row.state = StateValue(r.state)

\* A request leaves the channel in this step
Dequeued == queue # <<>> /\ queue' = Tail(queue)

\* C21: at most one request is handled at a time: a request leaves the channel
\* only when the consumer has returned from the one before; while a request is
\* in hand it stays the one in hand, and only its handler writes the lists,
\* and only the row of its list; an Update writes the row it read, so that the
\* revision it proved for (the pod it stored) is the row's revision plus one
\* and no two Updates of a list are computed from the same old row
C21_OneRequestAtATime ==
    [][/\ Dequeued => cpc = "recv"
       /\ (cpc \notin {"recv", "dead", "update_send"}) => cur' = cur
       /\ cdb' # cdb =>
            /\ cpc \in {"create_send", "update_send"}
            /\ \A r \in cdb : r \notin cdb' => (cpc = "update_send" /\ r.id = cur.id)
            /\ \A r \in cdb' : r \notin cdb =>
                    IF cpc = "update_send" THEN r.id = cur.id ELSE ~ HasList(cdb, r.id)
       /\ UpdateCommits =>
            LET old == get_membership_list(cdb, cur.id)
            IN  /\ \E p \in pods : /\ p.name = PodName(cur.id, old.num + 1, "membership_list")
                                   /\ p.content = cur.op
                /\ \A r \in cdb' : r.id = cur.id => r.num = old.num + 1
      ]_vars

\* Two Updates of list 1 were committed one after the other, the second
\* computed from the row the first wrote
C21_TwoUpdatesInTurn ==
    /\ \E r \in cdb : r.id = 1 /\ r.num = 2
    /\ HasPod(pods, PodName(1, 1, "membership_list"))
    /\ HasPod(pods, PodName(1, 2, "membership_list"))
    /\ Cardinality(InPhase(queue_state, "Update", "Complete")) = 2

\* ====================================================================
\* The blob sender (src/ad-server/src/eth.rs)
\* ====================================================================

\* the attempts of one call that are followed
MaxAttempts == 3

\* alloy::eips::eip4844::DATA_GAS_PER_BLOB
DATA_GAS_PER_BLOB == 131072
\* the fee_percentage of the first attempt
FirstFeePercentage == 111

\* signer.address()
Sender == "signer"
\* TxHash::from([0u8; 32]) and the hash of a submitted transaction
ZeroHash == "0x00"
TxHash == "tx_hash"

\* The payload bytes given to send_payload
PayloadBytes == {<<1>>, <<2, 3>>}
\* What the provider answers to the estimates and to the transaction count
FeeEstimates ==
    {[max_fee_per_gas |-> f, max_priority_fee_per_gas |-> 3] : f \in {1, 250}}
BlobBaseFees == {1, 17}
Nonces == {0, 5}
\* The receipts a provider can return for an included transaction
Receipts ==
    [from : {Sender, "other"},
     to : {Receiver, ToAddr, NoAddr},
     blob_gas_used : {DATA_GAS_PER_BLOB, 0}]

\* Result<TxHash> and the results of send_tx
HashOk(hash) == [ok |-> TRUE, err |-> "", hash |-> hash]
HashErr(msg) == [ok |-> FALSE, err |-> msg, hash |-> ""]

\* A provider call or a sleep, with the transaction request it carries
NoRequest ==
    [max_fee_per_gas |-> 0, max_priority_fee_per_gas |-> 0, max_fee_per_blob_gas |-> 0,
     to |-> NoAddr, nonce |-> 0, sidecar |-> <<>>]
Call(name) == [call |-> name, tx |-> NoRequest]
Submission(request) == [call |-> "send_transaction", tx |-> request]
Submissions == SelectSeq(calls, LAMBDA c : c.call = "send_transaction")
Sleeps == SelectSeq(calls, LAMBDA c : c.call = "sleep")

\* fees.max_fee_per_gas * fee_percentage / 100
scaled(estimate, percentage) == (estimate * percentage) \div 100

\* the percentage of a retry that keeps the one of the attempt before
next_fee_percentage_kept(percentage) == percentage
\* fee_percentage * 2, the percentage of the recursive call of send_tx
next_fee_percentage(percentage) == percentage * 2

\* TransactionRequest::default().with_...
TransactionRequest ==
    [max_fee_per_gas |-> scaled(fees.max_fee_per_gas, fee_percentage),
     max_priority_fee_per_gas |-> scaled(fees.max_priority_fee_per_gas, fee_percentage),
     max_fee_per_blob_gas |-> scaled(blob_base_fee, fee_percentage),
     to |-> Receiver,
     nonce |-> nonce,
     sidecar |-> sidecar]

\* The provider calls send_payload makes before send_tx, in order
Preamble ==
    <<"connect", "get_block_number", "estimate_eip1559_fees", "get_blob_base_fee",
      "get_transaction_count">>

\* test mode that still connects to the provider
send_payload_test_connects(b) ==
    /\ epc = "idle"
    /\ test_mode
    /\ eret' = HashOk(ZeroHash)
    /\ epc' = "returned"
    /\ calls' = Append(calls, Call("connect"))
    /\ UNCHANGED <<fee_percentage, fees, blob_base_fee, nonce, sidecar, receipt>>

\* send_payload with an empty PRIV_KEY: the mock hash
send_payload_test(b) ==
    /\ epc = "idle"
    /\ test_mode
    /\ eret' = HashOk(ZeroHash)
    /\ epc' = "returned"
    /\ UNCHANGED <<fee_percentage, fees, blob_base_fee, nonce, sidecar, receipt, calls>>

\* send_payload up to a provider call that fails: the error is returned
send_payload_fails(b) ==
    /\ epc = "idle"
    /\ ~ test_mode
    /\ \E n \in 1..Len(Preamble) :
          /\ calls' = calls \o [i \in 1..n |-> Call(Preamble[i])]
          /\ eret' = HashErr(Preamble[n])
    /\ epc' = "returned"
    /\ UNCHANGED <<fee_percentage, fees, blob_base_fee, nonce, sidecar, receipt>>

\* send_payload up to the call of send_tx
send_payload_begin(b) ==
    /\ epc = "idle"
    /\ ~ test_mode
    /\ calls' = calls \o [i \in 1..Len(Preamble) |-> Call(Preamble[i])]
    /\ sidecar' = b
    /\ fees' \in FeeEstimates
    /\ blob_base_fee' \in BlobBaseFees
    /\ nonce' \in Nonces
    /\ fee_percentage' = FirstFeePercentage
    /\ epc' = "send_tx"
    /\ UNCHANGED <<eret, receipt>>

\* provider.send_transaction answers "Too Many Requests": send_tx returns
\* the error and send_payload passes it on
send_tx_rate_limited ==
    /\ epc = "send_tx"
    /\ calls' = Append(calls, Submission(TransactionRequest))
    /\ eret' = HashErr("rpc-error: Too Many Requests")
    /\ epc' = "returned"
    /\ UNCHANGED <<fee_percentage, fees, blob_base_fee, nonce, sidecar, receipt>>

\* provider.send_transaction fails otherwise: sleep, then send_tx again
send_tx_error ==
    /\ epc = "send_tx"
    /\ Len(Sleeps) < MaxAttempts - 1
    /\ calls' = calls \o <<Submission(TransactionRequest), Call("sleep")>>
    /\ fee_percentage' = next_fee_percentage(fee_percentage)
    /\ epc' = "send_tx"
    /\ UNCHANGED <<eret, fees, blob_base_fee, nonce, sidecar, receipt>>

\* provider.send_transaction succeeds
send_tx_pending ==
    /\ epc = "send_tx"
    /\ calls' = Append(calls, Submission(TransactionRequest))
    /\ epc' = "watch"
    /\ UNCHANGED <<eret, fee_percentage, fees, blob_base_fee, nonce, sidecar, receipt>>

\* watch() answers "Too Many Requests": panic!
watch_rate_limited ==
    /\ epc = "watch"
    /\ calls' = Append(calls, Call("watch"))
    /\ epc' = "panicked"
    /\ UNCHANGED <<eret, fee_percentage, fees, blob_base_fee, nonce, sidecar, receipt>>

\* watch() times out or fails otherwise
watch_timeout ==
    /\ epc = "watch"
    /\ Len(Sleeps) < MaxAttempts - 1
    /\ calls' = calls \o <<Call("watch"), Call("sleep")>>
    /\ fee_percentage' = next_fee_percentage(fee_percentage)
    /\ epc' = "send_tx"
    /\ UNCHANGED <<eret, fees, blob_base_fee, nonce, sidecar, receipt>>

\* watch() returns the transaction hash
watch_ok ==
    /\ epc = "watch"
    /\ calls' = Append(calls, Call("watch"))
    /\ epc' = "get_transaction_receipt"
    /\ UNCHANGED <<eret, fee_percentage, fees, blob_base_fee, nonce, sidecar, receipt>>

\* provider.get_transaction_receipt fails: the error is returned
get_transaction_receipt_error ==
    /\ epc = "get_transaction_receipt"
    /\ calls' = Append(calls, Call("get_transaction_receipt"))
    /\ eret' = HashErr("get_transaction_receipt")
    /\ epc' = "returned"
    /\ UNCHANGED <<fee_percentage, fees, blob_base_fee, nonce, sidecar, receipt>>

\* provider.get_transaction_receipt returns None
get_transaction_receipt_none ==
    /\ epc = "get_transaction_receipt"
    /\ Len(Sleeps) < MaxAttempts - 1
    /\ calls' = calls \o <<Call("get_transaction_receipt"), Call("sleep")>>
    /\ fee_percentage' = next_fee_percentage(fee_percentage)
    /\ epc' = "send_tx"
    /\ UNCHANGED <<eret, fees, blob_base_fee, nonce, sidecar, receipt>>

\* provider.get_transaction_receipt returns the receipt: send_tx returns
get_transaction_receipt_some ==
    /\ epc = "get_transaction_receipt"
    /\ calls' = Append(calls, Call("get_transaction_receipt"))
    /\ receipt' \in Receipts
    /\ epc' = "check"
    /\ UNCHANGED <<eret, fee_percentage, fees, blob_base_fee, nonce, sidecar>>

\* send_payload's checks of the receipt
check_receipt(r) ==
    IF r.from # Sender THEN HashErr("receipt.from != sender")
    ELSE IF r.to = NoAddr THEN HashErr("expected receipt.to")
    ELSE IF r.to # Receiver THEN HashErr("receipt.to != receiver")
    ELSE IF r.blob_gas_used # DATA_GAS_PER_BLOB THEN HashErr("blob_gas_used != DATA_GAS_PER_BLOB")
    ELSE HashOk(TxHash)

\* send_payload after send_tx returned
send_payload_check ==
    /\ epc = "check"
    /\ eret' = check_receipt(receipt)
    /\ epc' = "returned"
    /\ UNCHANGED <<fee_percentage, fees, blob_base_fee, nonce, sidecar, receipt, calls>>

\* The coordinator is not running; the key is configured or empty
EthInit ==
    /\ SyncInit
    /\ TransportIdle /\ AppIdle
    /\ CodecIdle
    /\ test_mode \in BOOLEAN
    /\ cdb = {}
    /\ queue = <<>>
    /\ blocked = {}
    /\ queue_state = <<>>
    /\ cur = NoReq
    /\ cpc = "recv"
    /\ pods = {}
    /\ sent = <<>>
    /\ rev_db = rev_membership_list

EthNext ==
    \/ \E b \in PayloadBytes : send_payload_test(b) /\ UNCHANGED <<svars, cvars, kvars, nvars, avars, hvars>>
    \/ \E b \in PayloadBytes : send_payload_fails(b) /\ UNCHANGED <<svars, cvars, kvars, nvars, avars, hvars>>
    \/ \E b \in PayloadBytes : send_payload_begin(b) /\ UNCHANGED <<svars, cvars, kvars, nvars, avars, hvars>>
    \/ send_tx_rate_limited /\ UNCHANGED <<svars, cvars, kvars, nvars, avars, hvars>>
    \/ send_tx_error /\ UNCHANGED <<svars, cvars, kvars, nvars, avars, hvars>>
    \/ send_tx_pending /\ UNCHANGED <<svars, cvars, kvars, nvars, avars, hvars>>
    \/ watch_rate_limited /\ UNCHANGED <<svars, cvars, kvars, nvars, avars, hvars>>
    \/ watch_timeout /\ UNCHANGED <<svars, cvars, kvars, nvars, avars, hvars>>
    \/ watch_ok /\ UNCHANGED <<svars, cvars, kvars, nvars, avars, hvars>>
    \/ get_transaction_receipt_error /\ UNCHANGED <<svars, cvars, kvars, nvars, avars, hvars>>
    \/ get_transaction_receipt_none /\ UNCHANGED <<svars, cvars, kvars, nvars, avars, hvars>>
    \/ get_transaction_receipt_some /\ UNCHANGED <<svars, cvars, kvars, nvars, avars, hvars>>
    \/ send_payload_check /\ UNCHANGED <<svars, cvars, kvars, nvars, avars, hvars>>

EthSpec == EthInit /\ [][EthNext]_vars

\* ====================================================================
\* Properties of the blob sender
\* ====================================================================

\* C22: with an empty PRIV_KEY (test mode) send_payload returns the all-zero
\* transaction hash whatever the payload and makes no provider call at all:
\* no connection, no fee or nonce query, no submission.
C22_TestModeTouchesNoNetwork ==
    test_mode =>
        /\ calls = <<>>
        /\ epc \in {"idle", "returned"}
        /\ epc = "returned" => eret = HashOk(ZeroHash)
C22_TestModeReturned == test_mode /\ epc = "returned" /\ eret.hash = ZeroHash

\* C23: a "Too Many Requests" answer, to the submission or to the watch,
\* ends the call of send_payload with an error returned to its caller.
C23_RateLimitIsReturned ==
    [][(send_tx_rate_limited \/ watch_rate_limited)
            => (epc' = "returned" /\ ~ eret'.ok)]_vars

\* C24: outside test mode send_payload returns a hash only for a receipt
\* whose from is the sender, whose to is the configured TO_ADDR and whose
\* blob_gas_used is DATA_GAS_PER_BLOB.
C24_HashOnlyForCheckedReceipt ==
    (~ test_mode /\ epc = "returned" /\ eret.ok) =>
        /\ receipt.from = Sender
        /\ receipt.to = ToAddr
        /\ receipt.blob_gas_used = DATA_GAS_PER_BLOB

\* The places in calls of the submissions, and the k-th of them
SubmissionPlaces == {i \in DOMAIN calls : calls[i].call = "send_transaction"}
PlaceOf(k) ==
    CHOOSE i \in SubmissionPlaces : Cardinality({j \in SubmissionPlaces : j <= i}) = k

\* C30: the k-th submission caps the three fees at
\* estimate * 111 * 2^(k-1) / 100 of the estimates fetched once, carries the
\* same receiver, nonce and sidecar as the first, and follows the one before
\* after exactly one sleep of a second.
C30_RetrySchedule ==
    /\ Len(SelectSeq(calls, LAMBDA c : c.call = "estimate_eip1559_fees")) <= 1
    /\ Len(SelectSeq(calls, LAMBDA c : c.call = "get_blob_base_fee")) <= 1
    /\ Len(SelectSeq(calls, LAMBDA c : c.call = "get_transaction_count")) <= 1
    /\ \A k \in 1..Len(Submissions) :
          LET request == Submissions[k].tx
              percentage == 111 * 2^(k - 1)
          IN  /\ request.max_fee_per_gas = (fees.max_fee_per_gas * percentage) \div 100
              /\ request.max_priority_fee_per_gas =
                     (fees.max_priority_fee_per_gas * percentage) \div 100
              /\ request.max_fee_per_blob_gas = (blob_base_fee * percentage) \div 100
              /\ request.to = Submissions[1].tx.to
              /\ request.nonce = nonce
              /\ request.sidecar = sidecar
              /\ k > 1 =>
                    Cardinality({i \in DOMAIN calls : /\ calls[i].call = "sleep"
                                                      /\ PlaceOf(k - 1) < i
                                                      /\ i < PlaceOf(k)}) = 1
C30_ThreeAttempts ==
    /\ Len(Submissions) = 3
    /\ Len(Sleeps) = 2
    /\ fees.max_fee_per_gas = 250
    /\ \E i \in DOMAIN calls : calls[i].call = "sleep" /\ calls[i - 1].call = "watch"
    /\ \E i \in DOMAIN calls :
          calls[i].call = "sleep" /\ calls[i - 1].call = "get_transaction_receipt"

\* ====================================================================
\* The simple blob encoding (src/synchronizer/src/lib.rs)
\* ====================================================================

\* the 32-byte slots of the blobs that are decoded
MaxBlobSlots == 3

\* alloy::eips::eip4844::FIELD_ELEMENT_BYTES_USIZE
FIELD_ELEMENT_BYTES_USIZE == 32

\* Results of the decoders
Decoded(val) == [ok |-> TRUE, err |-> "", val |-> val]
DecodeErr(msg) == [ok |-> FALSE, err |-> msg, val |-> <<>>]
NotDecoded == [ok |-> FALSE, err |-> "none", val |-> <<>>]

\* The byte arrays that are encoded: n bytes, none of them zero
DataBytes(n, m) == [i \in 1..n |-> ((i * m) % 255) + 1]

\* u64::to_be_bytes of a length below 2^24
to_be_bytes(n) ==
    <<0, 0, 0, 0, 0, (n \div 65536) % 256, (n \div 256) % 256, n % 256>>

\* Blob = [0x00] ++ 8_BYTE_LEN ++ [0x00,...,0x00] ++ X, where every slot of
\* X is 0x00 followed by 31 data bytes
simple_blob(b, slots) ==
    [i \in 1..(slots * FIELD_ELEMENT_BYTES_USIZE) |->
        LET slot_no == (i - 1) \div FIELD_ELEMENT_BYTES_USIZE
            at == (i - 1) % FIELD_ELEMENT_BYTES_USIZE
            k == (slot_no - 1) * (FIELD_ELEMENT_BYTES_USIZE - 1) + at
        IN  IF slot_no = 0
            THEN IF at \in 1..8 THEN to_be_bytes(Len(b))[at] ELSE 0
            ELSE IF at = 0 \/ k > Len(b) THEN 0 ELSE b[k]]

\* (blob_bytes.len() / FIELD_ELEMENT_BYTES_USIZE - 1) * (FIELD_ELEMENT_BYTES_USIZE - 1)
max_data_len(blob_bytes) ==
    (Len(blob_bytes) \div FIELD_ELEMENT_BYTES_USIZE - 1) * (FIELD_ELEMENT_BYTES_USIZE - 1)

\* The low three bytes of u64::from_be_bytes(blob_bytes[1..9]), and whether
\* one of the five high bytes is set
data_len_low(blob_bytes) == blob_bytes[7] * 65536 + blob_bytes[8] * 256 + blob_bytes[9]
data_len_high(blob_bytes) == \E i \in 2..6 : blob_bytes[i] # 0

\* chunks(32).skip(1).flat_map(|chunk| chunk), the marker byte kept
flat_chunks_whole(blob_bytes) ==
    [k \in 1..(Len(blob_bytes) - FIELD_ELEMENT_BYTES_USIZE) |->
        blob_bytes[FIELD_ELEMENT_BYTES_USIZE + k]]

\* chunks(32).skip(1).flat_map(|chunk| chunk[1..].to_vec())
flat_chunks(blob_bytes) ==
    LET kept == {i \in (FIELD_ELEMENT_BYTES_USIZE + 1)..Len(blob_bytes) :
                    (i - 1) % FIELD_ELEMENT_BYTES_USIZE # 0}
    IN  [k \in 1..Cardinality(kept) |->
            blob_bytes[FIELD_ELEMENT_BYTES_USIZE
                       + ((k - 1) \div (FIELD_ELEMENT_BYTES_USIZE - 1)) * FIELD_ELEMENT_BYTES_USIZE
                       + ((k - 1) % (FIELD_ELEMENT_BYTES_USIZE - 1)) + 2]]

\* .take(data_len).collect()
take(bytes, n) == SubSeq(bytes, 1, IF n < Len(bytes) THEN n ELSE Len(bytes))

bytes_from_simple_blob(blob_bytes) ==
    IF data_len_high(blob_bytes) \/ data_len_low(blob_bytes) > max_data_len(blob_bytes)
    THEN DecodeErr("Given blob cannot accommodate the bytes.")
    ELSE Decoded(take(flat_chunks(blob_bytes), data_len_low(blob_bytes)))

\* The blob of b is built
EncodeBlob ==
    /\ wire = <<>>
    /\ \E slots \in 1..MaxBlobSlots :
          /\ Len(given) <= (slots - 1) * (FIELD_ELEMENT_BYTES_USIZE - 1)
          /\ wire' = simple_blob(given, slots)
    /\ UNCHANGED <<given, tampered, decoded>>

\* The length field of the blob is replaced by a larger length than the
\* blob has room for
DeclareLonger ==
    /\ wire # <<>>
    /\ tampered = "none"
    /\ decoded.err = "none"
    /\ \/ wire' = [wire EXCEPT ![2] = 1]
       \/ \E n \in {max_data_len(wire) + 1, 2 * max_data_len(wire) + 5} :
             wire' = [i \in DOMAIN wire |-> IF i \in 2..9 THEN to_be_bytes(n)[i - 1] ELSE wire[i]]
    /\ tampered' = "length"
    /\ UNCHANGED <<given, decoded>>

\* The synchronizer decodes the blob
DecodeBlob ==
    /\ wire # <<>>
    /\ decoded.err = "none"
    /\ decoded' = bytes_from_simple_blob(wire)
    /\ UNCHANGED <<given, wire, tampered>>

BlobInit ==
    /\ SyncInit
    /\ CoordIdle
    /\ TransportIdle /\ AppIdle
    /\ \E n \in 0..((MaxBlobSlots - 1) * (FIELD_ELEMENT_BYTES_USIZE - 1)) :
          \E m \in {1, 7} : given = DataBytes(n, m)
    /\ wire = <<>>
    /\ tampered = "none"
    /\ decoded = NotDecoded

BlobNext ==
    \/ EncodeBlob /\ UNCHANGED <<svars, cvars, tvars, nvars, avars, hvars>>
    \/ DeclareLonger /\ UNCHANGED <<svars, cvars, tvars, nvars, avars, hvars>>
    \/ DecodeBlob /\ UNCHANGED <<svars, cvars, tvars, nvars, avars, hvars>>

BlobSpec == BlobInit /\ [][BlobNext]_vars

\* C26: decoding the blob built from a byte array b that fits returns
\* exactly b, and a blob whose length field declares more bytes than
\* (slots - 1) * 31 is rejected with an error.
C26_BlobDecodingReturnsData ==
    decoded.err # "none" =>
        IF tampered = "none"
        THEN decoded.ok /\ decoded.val = given
        ELSE ~ decoded.ok
C26_FullBlobDecoded ==
    /\ decoded.ok
    /\ tampered = "none"
    /\ Len(given) = 62
    /\ Len(wire) = 96
    /\ decoded.val[62] = given[62]

\* ====================================================================
\* The payload encoding (src/common/src/payload.rs)
\* ====================================================================

\* the field elements a serialized proof is made of
ProofLimbs == 2

PAYLOAD_MAGIC == 44288
PAYLOAD_TYPE_INIT == 1
PAYLOAD_TYPE_UPDATE == 2

\* A u64 is four 16-bit words, the most significant first
U64(w3, w2, w1, w0) == <<w3, w2, w1, w0>>
\* F::ORDER = 0xFFFFFFFF00000001 (Goldilocks)
F_ORDER == U64(65535, 65535, 0, 1)
\* a >= b on u64
u64_ge(a, b) ==
    \/ a = b
    \/ \E i \in 1..4 : a[i] > b[i] /\ \A j \in 1..(i - 1) : a[j] = b[j]

\* Field elements in canonical form, and u64 values that are none
Elems == {U64(0, 0, 0, 0), U64(0, 0, 0, 1), U64(258, 772, 1286, 1800), U64(65535, 65535, 0, 0)}
NonCanonical == {F_ORDER, U64(65535, 65535, 65535, 65535)}

\* u64::to_le_bytes
u64_to_le_bytes(n) ==
    <<n[4] % 256, n[4] \div 256, n[3] % 256, n[3] \div 256,
      n[2] % 256, n[2] \div 256, n[1] % 256, n[1] \div 256>>
\* the eight bytes read as a big-endian number
u64_from_be_bytes(b) ==
    U64(b[1] * 256 + b[2], b[3] * 256 + b[4], b[5] * 256 + b[6], b[7] * 256 + b[8])
\* u64::from_le_bytes
u64_from_le_bytes(b) ==
    U64(b[8] * 256 + b[7], b[6] * 256 + b[5], b[4] * 256 + b[3], b[2] * 256 + b[1])

\* The result of a read: the value and the bytes that are left
ReadOk(val, rest) == [ok |-> TRUE, val |-> val, rest |-> rest, err |-> ""]
ReadErr(msg) == [ok |-> FALSE, val |-> <<>>, rest |-> <<>>, err |-> msg]
Drop(bytes, n) == SubSeq(bytes, n + 1, Len(bytes))

RECURSIVE write_elems(_, _)
write_elems(bytes, elems) ==
    IF elems = <<>> THEN bytes
    ELSE write_elems(bytes \o u64_to_le_bytes(Head(elems)), Tail(elems))

RECURSIVE read_elems(_, _)
read_elems(bytes, N) ==
    IF N = 0 THEN ReadOk(<<>>, bytes)
    ELSE IF Len(bytes) < 8 THEN ReadErr("failed to fill whole buffer")
    ELSE LET n == u64_from_le_bytes(SubSeq(bytes, 1, 8))
         IN  IF u64_ge(n, F_ORDER) THEN ReadErr(">= F::ORDER")
             ELSE LET more == read_elems(Drop(bytes, 8), N - 1)
                  IN  IF more.ok THEN ReadOk(<<n>> \o more.val, more.rest) ELSE more

\* CustomPredicateBatch::new_opaque
new_opaque(name, id) == [name |-> name, id |-> id]

write_custom_predicate_ref(bytes, cpr) ==
    write_elems(bytes, cpr.batch.id) \o <<cpr.index % 256>>

read_custom_predicate_ref(bytes) ==
    LET id == read_elems(bytes, 4)
    IN  IF ~ id.ok THEN id
        ELSE IF Len(id.rest) < 1 THEN ReadErr("failed to fill whole buffer")
        ELSE ReadOk([batch |-> new_opaque("unknown", id.val), index |-> id.rest[1]],
                    Drop(id.rest, 1))

\* plonky2's write_compressed_proof and read_compressed_proof: the proof is
\* a run of field elements whose number the common circuit data fixes
write_compressed_proof(bytes, proof) == write_elems(bytes, proof)
read_compressed_proof(bytes) ==
    IF Len(bytes) < 8 * ProofLimbs THEN ReadErr("read_compressed_proof")
    ELSE ReadOk([i \in 1..ProofLimbs |-> u64_from_le_bytes(SubSeq(bytes, 8 * i - 7, 8 * i))],
                Drop(bytes, 8 * ProofLimbs))

\* PayloadInit::write_bytes and PayloadInit::from_bytes
init_write_bytes(buffer, payload) ==
    write_elems(write_custom_predicate_ref(write_elems(buffer, payload.id),
                                           payload.custom_predicate_ref),
                payload.vds_root)
init_from_bytes(bytes) ==
    LET id == read_elems(bytes, 4)
        cpr == read_custom_predicate_ref(id.rest)
        vds_root == read_elems(cpr.rest, 4)
    IN  IF ~ id.ok THEN id
        ELSE IF ~ cpr.ok THEN cpr
        ELSE IF ~ vds_root.ok THEN vds_root
        ELSE ReadOk([kind |-> "Init", id |-> id.val, custom_predicate_ref |-> cpr.val,
                     vds_root |-> vds_root.val], vds_root.rest)

\* PayloadUpdate::write_bytes and PayloadUpdate::from_bytes
update_write_bytes(buffer, payload) ==
    write_elems(write_compressed_proof(write_elems(buffer, payload.id),
                                       payload.shrunk_main_pod_proof),
                payload.new_state)
update_from_bytes(bytes) ==
    LET id == read_elems(bytes, 4)
        proof == read_compressed_proof(id.rest)
        new_state == read_elems(proof.rest, 4)
    IN  IF ~ id.ok THEN id
        ELSE IF ~ proof.ok THEN proof
        ELSE IF ~ new_state.ok THEN new_state
        ELSE ReadOk([kind |-> "Update", id |-> id.val, shrunk_main_pod_proof |-> proof.val,
                     new_state |-> new_state.val], new_state.rest)

\* u16::to_le_bytes and u16::from_le_bytes
u16_to_le_bytes(n) == <<n % 256, n \div 256>>
u16_from_le_bytes(b) == b[2] * 256 + b[1]

\* Payload::to_bytes
to_bytes(payload) ==
    IF payload.kind = "Init"
    THEN init_write_bytes(u16_to_le_bytes(PAYLOAD_MAGIC) \o <<PAYLOAD_TYPE_INIT>>, payload)
    ELSE update_write_bytes(u16_to_le_bytes(PAYLOAD_MAGIC) \o <<PAYLOAD_TYPE_UPDATE>>, payload)

\* Payload::from_bytes
from_bytes(bytes) ==
    IF Len(bytes) < 2 THEN DecodeErr("failed to fill whole buffer")
    ELSE IF u16_from_le_bytes(SubSeq(bytes, 1, 2)) # PAYLOAD_MAGIC
    THEN DecodeErr("Invalid payload magic")
    ELSE IF Len(bytes) < 3 THEN DecodeErr("failed to fill whole buffer")
    ELSE LET type_ == bytes[3]
             read == IF type_ = PAYLOAD_TYPE_INIT THEN init_from_bytes(Drop(bytes, 3))
                     ELSE update_from_bytes(Drop(bytes, 3))
         IN  IF type_ \notin {PAYLOAD_TYPE_INIT, PAYLOAD_TYPE_UPDATE}
             THEN DecodeErr("Invalid payload type")
             ELSE IF read.ok THEN Decoded(read.val) ELSE DecodeErr(read.err)

\* The derived equality of payloads; two batches are the same batch when
\* their ids are equal
payload_eq(p, q) ==
    /\ p.kind = q.kind
    /\ p.id = q.id
    /\ IF p.kind = "Init"
       THEN /\ p.custom_predicate_ref.batch.id = q.custom_predicate_ref.batch.id
            /\ p.custom_predicate_ref.index = q.custom_predicate_ref.index
            /\ p.vds_root = q.vds_root
       ELSE /\ p.shrunk_main_pod_proof = q.shrunk_main_pod_proof
            /\ p.new_state = q.new_state

\* The payloads that are encoded
Hashes ==
    {<<U64(0, 0, 0, 1), U64(0, 0, 0, 0), U64(0, 0, 0, 0), U64(0, 0, 0, 0)>>,
     <<U64(258, 772, 1286, 1800), U64(65535, 65535, 0, 0), U64(0, 0, 0, 1), U64(0, 0, 0, 0)>>}
PredicateIndexes == {0, 1, 255}
BatchNames == {"unknown", "update"}
CompressedProofs == {[i \in 1..ProofLimbs |-> e] : e \in {U64(0, 0, 0, 1), U64(258, 772, 1286, 1800)}}
InitPayloads ==
    {[kind |-> "Init", id |-> id,
      custom_predicate_ref |-> [batch |-> [name |-> name, id |-> batch_id], index |-> index],
      vds_root |-> vds_root] :
        id \in Hashes, name \in BatchNames, batch_id \in Hashes,
        index \in PredicateIndexes, vds_root \in Hashes}
UpdatePayloads ==
    {[kind |-> "Update", id |-> id, shrunk_main_pod_proof |-> proof, new_state |-> new_state] :
        id \in Hashes, proof \in CompressedProofs, new_state \in Hashes}

\* Where in the bytes of a payload the limbs read by read_elems start
\* (counted from 0)
LimbOffsets(payload) ==
    IF payload.kind = "Init"
    THEN {3 + 8 * j : j \in 0..7} \cup {68 + 8 * j : j \in 0..3}
    ELSE {3 + 8 * j : j \in 0..3} \cup {35 + 8 * ProofLimbs + 8 * j : j \in 0..3}

\* The payload is serialized
EncodePayload ==
    /\ wire = <<>>
    /\ wire' = to_bytes(given)
    /\ UNCHANGED <<given, tampered, decoded>>

\* The magic of the bytes is replaced by another
TamperMagic ==
    /\ wire # <<>>
    /\ tampered = "none"
    /\ decoded.err = "none"
    /\ \E magic \in {<<173, 0>>, <<1, 173>>, <<0, 0>>} :
          wire' = magic \o Drop(wire, 2)
    /\ tampered' = "magic"
    /\ UNCHANGED <<given, decoded>>

\* The type tag of the bytes is replaced by one that is neither 1 nor 2
TamperType ==
    /\ wire # <<>>
    /\ tampered = "none"
    /\ decoded.err = "none"
    /\ \E tag \in {0, 3, 255} : wire' = [wire EXCEPT ![3] = tag]
    /\ tampered' = "type"
    /\ UNCHANGED <<given, decoded>>

\* One limb of the bytes is replaced by a value that is not below F::ORDER
TamperLimb ==
    /\ wire # <<>>
    /\ tampered = "none"
    /\ decoded.err = "none"
    /\ \E at \in LimbOffsets(given), n \in NonCanonical :
          wire' = SubSeq(wire, 1, at) \o u64_to_le_bytes(n) \o Drop(wire, at + 8)
    /\ tampered' = "limb"
    /\ UNCHANGED <<given, decoded>>

\* The bytes are parsed
DecodePayload ==
    /\ wire # <<>>
    /\ decoded.err = "none"
    /\ decoded' = from_bytes(wire)
    /\ UNCHANGED <<given, wire, tampered>>

PayloadInit ==
    /\ SyncInit
    /\ CoordIdle
    /\ TransportIdle /\ AppIdle
    /\ given \in InitPayloads \cup UpdatePayloads
    /\ wire = <<>>
    /\ tampered = "none"
    /\ decoded = NotDecoded

PayloadNext ==
    \/ EncodePayload /\ UNCHANGED <<svars, cvars, tvars, nvars, avars, hvars>>
    \/ TamperMagic /\ UNCHANGED <<svars, cvars, tvars, nvars, avars, hvars>>
    \/ TamperType /\ UNCHANGED <<svars, cvars, tvars, nvars, avars, hvars>>
    \/ TamperLimb /\ UNCHANGED <<svars, cvars, tvars, nvars, avars, hvars>>
    \/ DecodePayload /\ UNCHANGED <<svars, cvars, tvars, nvars, avars, hvars>>

PayloadSpec == PayloadInit /\ [][PayloadNext]_vars

\* C25: decoding the bytes of a well-formed Init or Update payload returns
\* a payload equal to it, and decoding fails when the magic is not 0xad00,
\* when the type tag is neither 1 nor 2, and when a 64-bit limb is not
\* below the field order.
C25_PayloadRoundTrip ==
    decoded.err # "none" =>
        CASE tampered = "none" -> decoded.ok /\ payload_eq(decoded.val, given)
          [] tampered = "magic" -> ~ decoded.ok /\ decoded.err = "Invalid payload magic"
          [] tampered = "type" -> ~ decoded.ok /\ decoded.err = "Invalid payload type"
          [] tampered = "limb" -> ~ decoded.ok /\ decoded.err = ">= F::ORDER"
C25_InitDecoded ==
    /\ decoded.ok
    /\ tampered = "none"
    /\ given.kind = "Init"
    /\ given.custom_predicate_ref.index = 255
    /\ given.custom_predicate_ref.batch.name = "update"
    /\ decoded.val.custom_predicate_ref.batch.name = "unknown"
    /\ decoded.val.id[2] = U64(65535, 65535, 0, 0)

\* ====================================================================
\* Properties of the coordinator: submission, row, schedule
\* ====================================================================

\* The payloads sent of a kind for a list
SentFor(kind, id) == {k \in DOMAIN sent : sent[k].kind = kind /\ sent[k].id = id}
\* The revisions the rows record
Revisions == UNION {{<<r.id, n>> : n \in 1..r.num} : r \in cdb}

\* C27: a row is written only after send_payload returned successfully and
\* Complete is recorded only after the row is written: a Complete Create or
\* Update has its row (and, outside test mode, its blob transaction), every
\* write of the table comes with a submission and the Complete of the
\* request in hand, and a request ending with the error of send_payload
\* changes neither the table nor the transactions sent.
C27_RowAfterSubmissionCompleteAfterRow ==
    /\ [](/\ \A i \in InPhase(queue_state, "Create", "Complete") :
                /\ HasList(cdb, queue_state[i].id)
                /\ ~ test_mode => SentFor("Create", queue_state[i].id) # {}
          /\ Cardinality(InPhase(queue_state, "Update", "Complete")) = Cardinality(Revisions)
          /\ \A r \in cdb :
                ~ test_mode =>
                    /\ SentFor("Create", r.id) # {}
                    /\ Cardinality(SentFor("Update", r.id)) = r.num)
    /\ [][/\ cdb' # cdb =>
                /\ ~ test_mode => Len(sent') = Len(sent) + 1
                /\ queue_state[cur.req_id].phase # "Complete"
                /\ queue_state'[cur.req_id].phase = "Complete"
          /\ \A i \in DOMAIN queue_state :
                (/\ queue_state[i].phase # "Error"
                 /\ queue_state'[i].phase = "Error"
                 /\ queue_state'[i].msg = "send_payload") => (cdb' = cdb /\ sent' = sent)
         ]_vars
C27_SentWrittenAndFailed ==
    /\ ~ test_mode
    /\ InPhase(queue_state, "Create", "Complete") # {}
    /\ InPhase(queue_state, "Update", "Complete") # {}
    /\ \E i \in DOMAIN queue_state :
          queue_state[i] = ErrorStatus("Update", "send_payload")
    /\ Len(sent) = 2

\* The UpdateRev requests registered, those put on the channel, those buffered
RegisteredRevs == {i \in DOMAIN queue_state : queue_state[i].variant = "UpdateRev"}
BufferedRevs == {k \in DOMAIN queue : queue[k].kind = "UpdateRev"}
EnqueuedRevs ==
    Cardinality(BufferedRevs) + Cardinality({i \in RegisteredRevs : queue_state[i].phase # "Pending"})

\* What the schedule of the Updates keeps whether or not the channel has room
ScheduleShape ==
    /\ Cardinality(RegisteredRevs) = Cardinality(InPhase(queue_state, "Update", "Complete"))
    /\ \A k \in BufferedRevs :
          /\ queue_state[queue[k].req_id] = Pending("UpdateRev")
          /\ HasList(cdb, queue[k].id)
          /\ queue[k].num \in 1..get_membership_list(cdb, queue[k].id).num
          /\ \A j \in BufferedRevs :
                (queue[j].id = queue[k].id /\ queue[j].num = queue[k].num) => j = k
    /\ cpc = "update_schedule" =>
          /\ cur.kind = "UpdateRev"
          /\ \A k \in DOMAIN queue : queue[k].req_id # cur.req_id
          /\ \A req \in blocked : req.req_id # cur.req_id
          /\ queue_state[cur.req_id] = Pending("UpdateRev")
          /\ cur.num = get_membership_list(cdb, cur.id).num
          /\ \A k \in BufferedRevs : queue[k].id = cur.id => queue[k].num < cur.num
    /\ EnqueuedRevs < Cardinality(RegisteredRevs) =>
          /\ cpc = "update_schedule"
          /\ EnqueuedRevs + 1 = Cardinality(RegisteredRevs)

\* C28: every Update that is Complete has exactly one UpdateRev request,
\* registered Pending under a fresh req_id, with the list's id and the
\* revision just persisted, and that request is on the channel or is put on
\* it by the handler's next step; an Update in Error has none.
C28_CompleteUpdateEnqueuesRev ==
    /\ ScheduleShape
    /\ EnqueuedRevs < Cardinality(RegisteredRevs) => Len(queue) < QueueCapacity

\* C29: once an UpdateRev{id, num} is Complete (its reverse pod is stored),
\* the rev_membership_list table has a row for id with that num, or a later
\* one, and the reverse state, for the next UpdateRev to load.
C29_ReverseRowStored ==
    \A p \in pods :
        p.name[3] = "rev_membership_list" =>
            \E r \in rev_db : r.id = p.name[1] /\ r.num >= p.name[2]

\* ====================================================================
\* The retries of the blob sender at the width of u128
\* (src/ad-server/src/eth.rs)
\* ====================================================================

\* the retries of one call that are followed
MaxRetries == 100

\* A u128 is sixteen bytes, the least significant first
U128Bytes == 16
u128_from(n) == [p \in 1..U128Bytes |-> IF p <= 4 THEN (n \div (256 ^ (p - 1))) % 256 ELSE 0]

\* a >= b on u128
u128_ge(a, b) ==
    \/ a = b
    \/ \E p \in 1..U128Bytes : a[p] > b[p] /\ \A q \in (p + 1)..U128Bytes : a[q] = b[q]

\* The byte p of the full product a * b, before the carry
RECURSIVE Column(_, _, _, _)
Column(a, b, p, i) ==
    IF i > U128Bytes THEN 0
    ELSE (IF (p - i + 1) \in 1..U128Bytes THEN a[i] * b[p - i + 1] ELSE 0)
         + Column(a, b, p, i + 1)
\* The bytes of the full product a * b from byte p on, given the carry
RECURSIVE ProductFrom(_, _, _, _)
ProductFrom(a, b, p, carry) ==
    IF p > 2 * U128Bytes THEN <<>>
    ELSE LET t == Column(a, b, p, 1) + carry
         IN  <<t % 256>> \o ProductFrom(a, b, p + 1, t \div 256)

\* a * b on u128: the product modulo 2^128, and whether it overflows
wrapping_mul(a, b) == SubSeq(ProductFrom(a, b, 1, 0), 1, U128Bytes)
overflows(a, b) ==
    LET full == ProductFrom(a, b, 1, 0)
    IN  \E p \in (U128Bytes + 1)..(2 * U128Bytes) : full[p] # 0

\* a / d on u128 for a small d
RECURSIVE Remainder(_, _, _)
Remainder(a, d, p) ==
    IF p > U128Bytes THEN 0
    ELSE (Remainder(a, d, p + 1) * 256 + a[p]) % d
div_small(a, d) ==
    [p \in 1..U128Bytes |-> (Remainder(a, d, p + 1) * 256 + a[p]) \div d]

\* What the provider answers to the estimates, in wei
WideEstimates == {1, 1000000000}

\* The three fee caps of send_tx's request
wide_caps ==
    [max_fee_per_gas |->
        div_small(wrapping_mul(fees.max_fee_per_gas, fee_percentage), 100),
     max_priority_fee_per_gas |->
        div_small(wrapping_mul(fees.max_priority_fee_per_gas, fee_percentage), 100),
     max_fee_per_blob_gas |->
        div_small(wrapping_mul(blob_base_fee, fee_percentage), 100)]
caps_overflow ==
    \/ overflows(fees.max_fee_per_gas, fee_percentage)
    \/ overflows(fees.max_priority_fee_per_gas, fee_percentage)
    \/ overflows(blob_base_fee, fee_percentage)

\* send_payload up to the call of send_tx
wide_begin ==
    /\ epc = "idle"
    /\ \E f \in WideEstimates :
          /\ fees' = [max_fee_per_gas |-> u128_from(f),
                      max_priority_fee_per_gas |-> u128_from(3)]
          /\ blob_base_fee' = u128_from(f)
    /\ fee_percentage' = u128_from(FirstFeePercentage)
    /\ epc' = "send_tx"
    /\ UNCHANGED <<eret, nonce, sidecar, receipt, calls>>

\* send_tx whose submission fails with an error other than the rate limit:
\* the request is built, sent, and send_tx is called again with
\* fee_percentage * 2. An overflowing multiplication panics in a build with
\* overflow checks and wraps in one without.
wide_send_tx_error ==
    /\ epc = "send_tx"
    /\ Len(calls) < MaxRetries
    /\ \/ /\ caps_overflow \/ overflows(fee_percentage, u128_from(2))
          /\ epc' = "panicked"
          /\ UNCHANGED <<fee_percentage, calls>>
       \/ /\ calls' = Append(calls, wide_caps)
          /\ fee_percentage' = wrapping_mul(fee_percentage, u128_from(2))
          /\ epc' = "send_tx"
    /\ UNCHANGED <<eret, fees, blob_base_fee, nonce, sidecar, receipt>>

\* send_tx whose submission succeeds
wide_send_tx_pending ==
    /\ epc = "send_tx"
    /\ \/ /\ caps_overflow
          /\ epc' = "panicked"
          /\ UNCHANGED calls
       \/ /\ calls' = Append(calls, wide_caps)
          /\ epc' = "watch"
    /\ UNCHANGED <<eret, fee_percentage, fees, blob_base_fee, nonce, sidecar, receipt>>

RetryInit ==
    /\ SyncInit
    /\ CoordIdle
    /\ TransportIdle /\ AppIdle
    /\ CodecIdle

RetryNext ==
    \/ wide_begin /\ UNCHANGED <<svars, cvars, kvars, nvars, avars, hvars>>
    \/ wide_send_tx_error /\ UNCHANGED <<svars, cvars, kvars, nvars, avars, hvars>>
    \/ wide_send_tx_pending /\ UNCHANGED <<svars, cvars, kvars, nvars, avars, hvars>>

RetrySpec == RetryInit /\ [][RetryNext]_vars

\* C31: however many retries follow one another, no multiplication
\* overflows and the three fee caps of an attempt are at least those of the
\* attempt before.
C31_FeeCapsNeverDecrease ==
    /\ epc # "panicked"
    /\ \A k \in 1..(Len(calls) - 1) :
          /\ u128_ge(calls[k + 1].max_fee_per_gas, calls[k].max_fee_per_gas)
          /\ u128_ge(calls[k + 1].max_priority_fee_per_gas, calls[k].max_priority_fee_per_gas)
          /\ u128_ge(calls[k + 1].max_fee_per_blob_gas, calls[k].max_fee_per_blob_gas)


\* ---- One call of send_payload and the sender's nonce on the chain ----

\* Every attempt of one call carries the nonce read once by send_payload, so
\* a block holds the transaction of at most one of them; once it does, a
\* node refuses any further transaction with that nonce ("nonce too low").
\* The attempts are told apart by their fee_percentage. To keep the state
\* finite the doubling stops at the percentage of attempt MaxAttempts, which
\* stands for that attempt and all later ones; the request log is not kept.
LastFeePercentage == FirstFeePercentage * (2 ^ (MaxAttempts - 1))

bounded_fee_percentage(percentage) ==
    IF percentage >= LastFeePercentage THEN percentage
    ELSE next_fee_percentage(percentage)

\* provider.send_transaction fails with an error other than the rate limit
\* (always the case once the nonce is used): send_tx sleeps
nonce_send_tx_error ==
    /\ epc = "send_tx"
    /\ epc' = "sleep"
    /\ UNCHANGED <<eret, fee_percentage, fees, blob_base_fee, nonce, sidecar, receipt, calls>>
    /\ UNCHANGED nvars

\* after the sleep send_tx calls itself with fee_percentage * 2
nonce_sleep ==
    /\ epc = "sleep"
    /\ fee_percentage' = bounded_fee_percentage(fee_percentage)
    /\ epc' = "send_tx"
    /\ UNCHANGED <<eret, fees, blob_base_fee, nonce, sidecar, receipt, calls>>
    /\ UNCHANGED nvars

\* provider.send_transaction is accepted, which needs the nonce to be unused
nonce_send_tx_pending ==
    /\ epc = "send_tx"
    /\ included = 0
    /\ pending' = pending \cup {fee_percentage}
    /\ epc' = "watch"
    /\ UNCHANGED <<eret, fee_percentage, fees, blob_base_fee, nonce, sidecar, receipt, calls>>
    /\ UNCHANGED included

\* watch() gives up after tx_watch_timeout: send_tx sleeps
nonce_watch_timeout ==
    /\ epc = "watch"
    /\ epc' = "sleep"
    /\ UNCHANGED <<eret, fee_percentage, fees, blob_base_fee, nonce, sidecar, receipt, calls>>
    /\ UNCHANGED nvars

\* watch() returns the hash of the watched transaction, which is in a block
nonce_watch_ok ==
    /\ epc = "watch"
    /\ included = fee_percentage
    /\ epc' = "get_transaction_receipt"
    /\ UNCHANGED <<eret, fee_percentage, fees, blob_base_fee, nonce, sidecar, receipt, calls>>
    /\ UNCHANGED nvars

\* the receipt is returned by send_tx and checked by send_payload
nonce_receipt ==
    /\ epc = "get_transaction_receipt"
    /\ receipt' \in Receipts
    /\ eret' = check_receipt(receipt')
    /\ epc' = "returned"
    /\ UNCHANGED <<fee_percentage, fees, blob_base_fee, nonce, sidecar, calls>>
    /\ UNCHANGED nvars

\* The chain puts one accepted transaction of the nonce in a block
block_includes ==
    /\ included = 0
    /\ \E k \in pending : included' = k
    /\ UNCHANGED <<tvars, pending>>

\* The key is configured
NonceInit ==
    /\ EthInit
    /\ ~ test_mode

\* The steps of send_payload
NonceSender ==
    \/ \E b \in PayloadBytes : send_payload_begin(b) /\ UNCHANGED nvars
    \/ nonce_send_tx_error
    \/ nonce_sleep
    \/ nonce_send_tx_pending
    \/ nonce_watch_timeout
    \/ nonce_watch_ok
    \/ nonce_receipt

NonceNext ==
    \/ (\E b \in PayloadBytes : send_payload_begin(b) /\ UNCHANGED nvars) /\ UNCHANGED <<svars, cvars, kvars, avars, hvars>>
    \/ nonce_send_tx_error /\ UNCHANGED <<svars, cvars, kvars, avars, hvars>>
    \/ nonce_sleep /\ UNCHANGED <<svars, cvars, kvars, avars, hvars>>
    \/ nonce_send_tx_pending /\ UNCHANGED <<svars, cvars, kvars, avars, hvars>>
    \/ nonce_watch_timeout /\ UNCHANGED <<svars, cvars, kvars, avars, hvars>>
    \/ nonce_watch_ok /\ UNCHANGED <<svars, cvars, kvars, avars, hvars>>
    \/ nonce_receipt /\ UNCHANGED <<svars, cvars, kvars, avars, hvars>>
    \/ block_includes /\ UNCHANGED <<svars, cvars, kvars, avars, hvars>>

\* The task running send_payload keeps being scheduled; nothing is assumed
\* of the answers of the node or of the chain.
NonceSpec ==
    /\ NonceInit
    /\ [][NonceNext]_vars
    /\ WF_vars(NonceSender /\ UNCHANGED <<svars, cvars, kvars, avars, hvars>>)

\* C32: once a block holds the transaction of some attempt of the call,
\* send_payload eventually returns.
C32_IncludedCallReturns == (included # 0) ~> (epc = "returned")


\* ---- The pod files of the coordinator ----

\* The membership_list pod files on disk
MembershipPods == {p \in pods : p.name[3] = "membership_list"}

\* C33: while no request is being handled, every membership_list pod file
\* belongs to a revision the database holds: its list has a row and its num
\* is at most the row's num.
C33_PodFilesOnlyForRevisions ==
    cpc = "recv" =>
        \A p \in MembershipPods :
            /\ HasList(cdb, p.name[1])
            /\ p.name[2] <= get_membership_list(cdb, p.name[1]).num


\* ---- The revision number of a list ----

\* This step completes an Update of list id
CompletesUpdate(id) ==
    /\ cpc = "update_send"
    /\ cur.id = id
    /\ cur.req_id \in InPhase(queue_state', "Update", "Complete")

\* C34: a row is inserted with num = 0; the num of a row grows by exactly one
\* in the step that completes an Update of its list and is the same after
\* every other step (an Update ending in Error, a Query, an UpdateRev, a
\* request on another list); no row is removed.
C34_NumCountsCompleteUpdates ==
    [][ /\ \A r \in cdb :
            /\ HasList(cdb', r.id)
            /\ get_membership_list(cdb', r.id).num =
                  IF CompletesUpdate(r.id) THEN r.num + 1 ELSE r.num
        /\ \A r \in cdb' : ~ HasList(cdb, r.id) => r.num = 0
      ]_vars

\* Two lists, one at revision 1 and the other still at revision 0, after an
\* Update ended in Error
C34_RevisionAndAnError ==
    /\ \E r \in cdb : r.num = 1
    /\ \E r \in cdb : r.num = 0
    /\ InPhase(queue_state, "Update", "Error") # {}


\* ---- The walker and the head of the beacon chain ----

\* The walker is past the check of a slot: it fetches or processes it
InSlot == pc \in {"block", "txs", "first_blob", "blobs", "visit", "commit"}

\* C35: a slot is recorded as visited, and a slot is fetched or processed,
\* only when the head is at or past it; while the slot is ahead of the head
\* the walker writes nothing and stays on the slot; a slot is recorded
\* without being processed only when the head is at or past it and it has
\* no header.
C35_WalksOnlyUpToHead ==
    /\ [](\A d \in Ledgers : \A s \in VisitedSlots(d) : s <= HeadSlot)
    /\ [](InSlot => slot <= HeadSlot)
    /\ [][ (pc = "check" /\ slot > HeadSlot) =>
              /\ db' = db
              /\ tx' = tx
              /\ (pc' = "check" /\ slot' = slot) \/ pc' = "boot"
         ]_vars
    /\ [][ (pc = "check" /\ pc' = "check" /\ slot' # slot) =>
              /\ slot <= HeadSlot
              /\ ~ beacon[slot]
              /\ db' = add_visited_slot(db, slot)
         ]_vars

\* The walker waits for a slot ahead of the head after it recorded a slot
\* without a header and walked the head's slot
C35_WaitsAfterMissedSlot ==
    /\ pc = "check"
    /\ slot > HeadSlot
    /\ \E s \in VisitedSlots(db) : ~ beacon[s]
    /\ HeadSlot \in VisitedSlots(db)


\* ---- The reverse state of a list ----

\* The users of the operations applied to one list
AppUsers == {"alice", "bob", "carol"}
AppOps ==
    {[name |-> "init"]}
        \cup [name : {"add", "del"}, group : Groups, user : AppUsers]

\* rev_sync_init: the reverse state without keys
st_rev_sync_init(op) == StOk(EmptyDict)

\* the user has no entry: new_rev.insert(user, {group})
st_rev_add_fresh(old_rev, user, group) ==
    StOk([u \in DOMAIN old_rev \cup {user} |-> IF u = user THEN {group} ELSE old_rev[u]])

\* the user has an entry: user_groups.insert(group).unwrap(), new_rev.update
st_rev_add_existing(old_rev, user, group) ==
    IF group \in old_rev[user]
    THEN StPanic
    ELSE StOk([old_rev EXCEPT ![user] = @ \cup {group}])

st_rev_add(old_rev, op) ==
    IF op.user \notin DOMAIN old_rev
    THEN st_rev_add_fresh(old_rev, op.user, op.group)
    ELSE st_rev_add_existing(old_rev, op.user, op.group)

\* Faulty variant of st_rev_del_singleton: the entry is kept with no group
st_rev_del_singleton_kept(old_rev, user) ==
    StOk([old_rev EXCEPT ![user] = {}])

\* the user's only group goes: new_rev.delete(user)
st_rev_del_singleton(old_rev, user) ==
    StOk([u \in DOMAIN old_rev \ {user} |-> old_rev[u]])

\* user_groups.delete(group).unwrap(), new_rev.update
st_rev_del_else(old_rev, user, group) ==
    IF group \notin old_rev[user]
    THEN StPanic
    ELSE StOk([old_rev EXCEPT ![user] = @ \ {group}])

\* old_rev.get(&user).unwrap(), then by the number of groups of the user
st_rev_del(old_rev, op) ==
    IF op.user \notin DOMAIN old_rev
    THEN StPanic
    ELSE IF Cardinality(old_rev[op.user]) = 1
         THEN IF op.group \in old_rev[op.user]
              THEN st_rev_del_singleton(old_rev, op.user)
              ELSE StPanic
         ELSE st_rev_del_else(old_rev, op.user, op.group)

st_rev_sync(old_rev, op) ==
    CASE op.name = "init" -> st_rev_sync_init(op)
      [] op.name = "add" -> st_rev_add(old_rev, op)
      [] op.name = "del" -> st_rev_del(old_rev, op)
      [] OTHER -> StPanic

\* One operation that st_update accepts, followed by st_rev_sync on the
\* reverse state
app_update(op) ==
    /\ app_pc = "ready"
    /\ st_update(app_state, op).tag = "ok"
    /\ LET rev == st_rev_sync(app_rev_state, op)
       IN  IF rev.tag = "ok"
           THEN /\ app_state' = st_update(app_state, op).state
                /\ app_rev_state' = rev.state
                /\ app_pc' = "ready"
           ELSE /\ app_pc' = "panicked"
                /\ UNCHANGED <<app_state, app_rev_state>>

AppInit ==
    /\ SyncInit
    /\ CoordIdle
    /\ TransportIdle /\ AppIdle
    /\ CodecIdle

AppNext == \E op \in AppOps : app_update(op) /\ UNCHANGED <<svars, cvars, tvars, kvars, nvars, hvars>>

AppSpec == AppInit /\ [][AppNext]_vars

\* The groups of the state that hold user u
GroupsOf(u) == {g \in DOMAIN app_state : u \in app_state[g]}

\* C36: after any sequence of operations st_update accepted, each followed
\* by st_rev_sync, no helper has panicked and the reverse state has an entry
\* exactly for the users that are in some group, which holds exactly the
\* groups of the state the user is in.
C36_ReverseStateMirrorsState ==
    /\ app_pc = "ready"
    /\ DOMAIN app_rev_state = {u \in AppUsers : GroupsOf(u) # {}}
    /\ \A u \in DOMAIN app_rev_state : app_rev_state[u] = GroupsOf(u)

\* alice left her last group after bob joined two groups
C36_LastGroupLeft ==
    /\ app_state # EmptyDict
    /\ "alice" \notin DOMAIN app_rev_state
    /\ "bob" \in DOMAIN app_rev_state
    /\ Cardinality(app_rev_state["bob"]) = 2
    /\ "carol" \in DOMAIN app_rev_state


\* ---- The synchronizer against one chain ----

\* The nodes answer every walk of a slot alike: what a walk reads of a slot
\* is recorded in chain, and a later walk of the slot (after a restart) reads
\* the recorded answers again. An item is one blob of the block in the order
\* of the loops: by transaction, then by the transaction's versioned hashes;
\* first marks the first blob of its transaction.
Item(to, blob, first) == [to |-> to, blob |-> blob, first |-> first]

\* The blobs of the chain: an Init and the Update that can follow it. Either
\* is rejected when it comes out of turn or a second time.
ReplayBlobs ==
    {b \in InitBlobs : b.custom_predicate_ref = "update"}
        \cup {b \in UpdateBlobs :
                /\ b.new_state = 1
                /\ b.shrunk_main_pod_proof.attests = PublicInputs("update", 1, EMPTY_VALUE, "vds")}

\* The destinations of the chain's blob transactions
ReplayTxTo == {ToAddr, "other_addr"}

\* The walk reads item `it` at the place it has reached in the block
Reads(it) ==
    IF nblobs < Len(chain[slot].items)
    THEN /\ chain[slot].items[nblobs + 1] = it
         /\ UNCHANGED chain
    ELSE /\ ~ chain[slot].closed
         /\ chain' = [chain EXCEPT ![slot].items = Append(@, it)]

replay_FetchBlock ==
    /\ FetchBlock
    /\ LET kind == IF pc' = "txs" THEN "blobs" ELSE "none"
       IN  /\ chain[slot].kind \in {"unread", kind}
           /\ chain' = [chain EXCEPT ![slot].kind = kind]

replay_NextTx(to) ==
    /\ NextTx(to)
    /\ IF to # NoAddr /\ is_ad_tx(to)
       THEN /\ IF nblobs < Len(chain[slot].items)
               THEN /\ chain[slot].items[nblobs + 1].to = to
                    /\ chain[slot].items[nblobs + 1].first
               ELSE ~ chain[slot].closed
            /\ UNCHANGED chain
       ELSE Reads(Item(to, GarbageBlob, TRUE))

replay_ProcessBlob(blob) ==
    /\ ProcessBlob(blob)
    /\ Reads(Item(tx_to, blob, pc = "first_blob"))

replay_EndTx ==
    /\ EndTx
    /\ nblobs < Len(chain[slot].items) => chain[slot].items[nblobs + 1].first
    /\ UNCHANGED chain

replay_EndBlock ==
    /\ EndBlock
    /\ nblobs = Len(chain[slot].items)
    /\ chain' = [chain EXCEPT ![slot].closed = TRUE]

ReplayNext ==
    \/ AdvanceHead /\ UNCHANGED <<cvars, tvars, kvars, nvars, avars, hvars>>
    \/ Start /\ UNCHANGED <<cvars, tvars, kvars, nvars, avars, hvars>>
    \/ SlotMissed /\ UNCHANGED <<cvars, tvars, kvars, nvars, avars, hvars>>
    \/ SlotBegin /\ UNCHANGED <<cvars, tvars, kvars, nvars, avars, hvars>>
    \/ replay_FetchBlock /\ UNCHANGED <<cvars, tvars, kvars, nvars, avars>>
    \/ \E to \in ReplayTxTo : replay_NextTx(to) /\ UNCHANGED <<cvars, tvars, kvars, nvars, avars>>
    \/ \E blob \in ReplayBlobs : replay_ProcessBlob(blob) /\ UNCHANGED <<cvars, tvars, kvars, nvars, avars>>
    \/ replay_EndTx /\ UNCHANGED <<cvars, tvars, kvars, nvars, avars>>
    \/ replay_EndBlock /\ UNCHANGED <<cvars, tvars, kvars, nvars, avars>>
    \/ VisitSlot /\ UNCHANGED <<cvars, tvars, kvars, nvars, avars, hvars>>
    \/ Commit /\ UNCHANGED <<cvars, tvars, kvars, nvars, avars, hvars>>
    \/ Crash /\ UNCHANGED <<cvars, tvars, kvars, nvars, avars, hvars>>

ReplaySpec == SyncOnlyInit /\ [][ReplayNext]_vars

\* The tables after the blobs of slot s from the k-th on are applied to d,
\* one after the other, each on the tables the one before left
RECURSIVE ApplyItems(_, _, _)
ApplyItems(d, s, k) ==
    IF k > Len(chain[s].items) THEN d
    ELSE LET it == chain[s].items[k]
             r == process_ad_blob(d, it.blob)
             row == [versioned_hash |-> VersionedHash(it.blob), slot |-> s]
         IN  ApplyItems(IF it.to = NoAddr \/ ~ is_ad_tx(it.to) THEN d
                        ELSE IF r.ok THEN add_blob(r.db, row).db
                        ELSE r.db,
                        s, k + 1)

\* The database of a synchronizer that walked the first n slots from the
\* genesis slot without ever stopping
RECURSIVE WalkedTo(_)
WalkedTo(n) ==
    IF n = 0 THEN EmptyDb
    ELSE LET s == Genesis + n - 1
         IN  add_visited_slot(IF beacon[s] THEN ApplyItems(WalkedTo(n - 1), s, 1)
                              ELSE WalkedTo(n - 1), s)

\* C37: whatever the restarts, the committed database is the one a
\* synchronizer holds that walked the same slots of the same chain without
\* stopping: the blobs of a slot applied by transaction and then by versioned
\* hash, each against the rows the blobs before it left.
C37_TablesAreAFunctionOfTheChain == db = WalkedTo(Len(db.visited_slot))

\* A committed slot brought an Init and an Update of the list, and the
\* synchronizer then stopped in a later slot after it had read a blob of it
C37_InitAndUpdateInOneSlot ==
    /\ pc = "boot"
    /\ \E a \in db.blob : \E b \in db.blob :
          /\ a.slot = b.slot
          /\ a.versioned_hash.type = "init"
          /\ b.versioned_hash.type = "update"
    /\ \E s \in 1..MaxSlot :
          /\ chain[s].items # <<>>
          /\ s \notin VisitedSlots(db)


\* ---- Complete statuses ----

\* C38: a status that is Complete is the same after every step of the
\* consumer, within the handling of its request (the scheduling of the
\* UpdateRev that follows an Update's Complete) and after it.
C38_CompleteIsTerminal ==
    [][ \A i \in DOMAIN queue_state :
            queue_state[i].phase = "Complete" =>
                /\ i \in DOMAIN queue_state'
                /\ queue_state'[i] = queue_state[i]
      ]_vars

\* An Update is Complete and the UpdateRev scheduled after it has been
\* handled to its end
C38_CompleteThenLaterRequests ==
    /\ cpc = "recv"
    /\ \E i \in InPhase(queue_state, "Update", "Complete") :
          \E j \in DOMAIN queue_state :
              /\ j > i
              /\ queue_state[j].variant = "UpdateRev"
              /\ queue_state[j].phase \in {"Complete", "Error"}


\* ---- A Create whose blob is sent and whose row is not written ----

\* handle_create when send_payload has submitted the transaction and then
\* returns an error (the node fails the receipt request after watch()
\* returned): the payload is on its way, no row is inserted and the request
\* ends in Error
handle_create_send_unconfirmed ==
    /\ cpc = "create_send"
    /\ ~ test_mode
    /\ sent' = Append(sent, PayloadCreate(get_latest_membership_list(cdb) + 1))
    /\ Failed(cur, "get_transaction_receipt")
    /\ UNCHANGED <<test_mode, rev_db, cdb, queue, blocked, cur, pods>>

SubmitInit ==
    /\ CoordInit
    /\ ~ test_mode

SubmitNext ==
    \/ CoordNext
    \/ handle_create_send_unconfirmed /\ UNCHANGED <<svars, ovars>>

\* The coordinator with a key, sending to a node that can fail any request
SubmitSpec == SubmitInit /\ [][SubmitNext]_vars

\* C39: no two Init payloads the coordinator has submitted carry the same
\* list id.
C39_InitIdsDistinct ==
    \A i \in DOMAIN sent : \A j \in DOMAIN sent :
        (i # j /\ sent[i].kind = "Create" /\ sent[j].kind = "Create")
            => sent[i].id # sent[j].id


\* ---- The order of the UpdateRev requests ----

\* This step takes an UpdateRev request from the queue
TakesUpdateRev ==
    /\ cpc = "recv"
    /\ queue # <<>>
    /\ Head(queue).kind = "UpdateRev"
    /\ queue' = Tail(queue)

\* This step completes the UpdateRev request being handled
CompletesUpdateRev ==
    /\ cpc = "rev_prove"
    /\ queue_state'[cur.req_id].phase = "Complete"

====
